---- MODULE Spec2Model ----
(***************************************************************************)
(* Bankroll ledger, Kelly sizer and parlay sizer of gorillagenics          *)
(* (src/src/gorillagenics/bankroll.py), the 3-pick slip builder            *)
(* (src/gpicks.py), and the correlation engine, role tagger and slip       *)
(* grader (corr.py, roles.py, slip.py of src/src/gorillagenics).           *)
(*                                                                         *)
(* Money is modelled by integers: every balance the code computes is the   *)
(* left fold  balance := balance + amount  over the ledger, and the model  *)
(* computes it the same way.  The Kelly sizer divides, so its numbers are  *)
(* exact rationals <<numerator, denominator>>.                             *)
(* None is the string "None".                                              *)
(***************************************************************************)
EXTENDS Integers, Sequences, FiniteSets, TLC

VARIABLES
    file,             \* content of the ledger file at ledger_path
    mgr,              \* "none" | "live" | "raised": the BankrollManager object
    ledger,           \* self.ledger
    current_balance,  \* self.current_balance
    clock,            \* datetime.now(), one tick per entry created
    last,             \* the last call made: operation, amount passed, outcome
    kelly,            \* the last call of calculate_kelly_stake: inputs and result
    call,             \* the last call of a function that keeps no state:
                      \* its name, its arguments and what it returned
    peer              \* a second BankrollManager object on the same path:
                      \* its mgr, ledger and current_balance

vars == <<file, mgr, ledger, current_balance, clock, last, kelly, call, peer>>

------------------------------------------------------------------------------
(* Bounds *)

MaxOps == 3       \* entries created in one behaviour

\* starting amounts, stakes and payouts (none of them is validated for sign)
Amounts == {0 - 1, 0, 1}
SlipIds == {"s1"}
Results == {"win", "loss", "push"}
Tags == {<<"shootout", "QB+WR">>}

------------------------------------------------------------------------------
(* BankrollEntry and its JSON form *)

EntryFields ==
    {"timestamp", "slip_id", "action", "amount", "balance_before",
     "balance_after", "game_script", "stack_type", "notes"}

RequiredFields ==
    {"timestamp", "slip_id", "action", "amount", "balance_before", "balance_after"}

BankrollEntry(ts, slip, act, amt, before, after, gs, st, nt) ==
    [timestamp |-> ts, slip_id |-> slip, action |-> act, amount |-> amt,
     balance_before |-> before, balance_after |-> after,
     game_script |-> gs, stack_type |-> st, notes |-> nt]

\* asdict(entry) with the timestamp replaced by its isoformat() string
EntryDict(e) ==
    [keys |-> EntryFields,
     timestamp |-> [kind |-> "iso", t |-> e.timestamp],
     slip_id |-> e.slip_id, action |-> e.action, amount |-> e.amount,
     balance_before |-> e.balance_before, balance_after |-> e.balance_after,
     game_script |-> e.game_script, stack_type |-> e.stack_type,
     notes |-> e.notes]

\* Faulty variant: the notes lost in loading
EntryFromDictNoNotes(d) ==
    BankrollEntry(d.timestamp.t, d.slip_id, d.action, d.amount,
                  d.balance_before, d.balance_after,
                  d.game_script, d.stack_type, "None")

\* BankrollEntry(**entry_data) after datetime.fromisoformat on the timestamp
EntryFromDict(d) ==
    BankrollEntry(d.timestamp.t, d.slip_id, d.action, d.amount,
                  d.balance_before, d.balance_after,
                  d.game_script, d.stack_type, d.notes)

------------------------------------------------------------------------------
(* The ledger file *)

AbsentFile == [tag |-> "absent", keys |-> {}, current_balance |-> 0, ledger |-> <<>>]

\* an empty file, a truncated or half written file, text that is not JSON
UndecodableFile ==
    [tag |-> "undecodable", keys |-> {}, current_balance |-> 0, ledger |-> <<>>]

\* valid JSON whose top level is a list
ListFile == [tag |-> "list", keys |-> {}, current_balance |-> 0, ledger |-> <<>>]

\* json.dump({'current_balance': ..., 'ledger': [...]})
JsonDump(l, bal) ==
    [tag |-> "dict", keys |-> {"current_balance", "ledger"},
     current_balance |-> bal,
     ledger |-> [i \in 1..Len(l) |-> EntryDict(l[i])]]

SaveOutcomes == {"ok", "open_failed", "write_failed"}

\* save_ledger: open(path, 'w') truncates the file, json.dump then writes it.
\* "open_failed": open raised, the file is as it was; "write_failed": the
\* write stopped after the truncation, the file holds a part of the text.
SaveLedger(l, bal, f, outcome) ==
    CASE outcome = "ok" -> JsonDump(l, bal)
      [] outcome = "open_failed" -> f
      [] outcome = "write_failed" -> UndecodableFile

------------------------------------------------------------------------------
(* load_ledger *)

CaughtExceptions == {"JSONDecodeError", "KeyError", "ValueError"}

\* The exception one entry_data raises in the loop body, "" when it loads
EntryLoadError(d) ==
    IF "timestamp" \notin d.keys THEN "KeyError"
    ELSE IF d.timestamp.kind = "not_str" THEN "TypeError"
    ELSE IF d.timestamp.kind = "not_iso" THEN "ValueError"
    ELSE IF ~(RequiredFields \subseteq d.keys) \/ ~(d.keys \subseteq EntryFields)
         THEN "TypeError"
    ELSE ""

\* for entry_data in data.get('ledger', []): ... self.ledger.append(entry)
RECURSIVE LoadEntries(_, _)
LoadEntries(ds, acc) ==
    IF ds = <<>> THEN [exc |-> "", ledger |-> acc]
    ELSE LET err == EntryLoadError(Head(ds)) IN
         IF err # "" THEN [exc |-> err, ledger |-> acc]
         ELSE LoadEntries(Tail(ds), Append(acc, EntryFromDict(Head(ds))))

\* The try block of load_ledger: the exception it raises ("" for none) and
\* the fields of self when it is left
LoadTry(f) ==
    IF f.tag = "undecodable"
    THEN [exc |-> "JSONDecodeError", ledger |-> <<>>, current_balance |-> 0]
    ELSE IF f.tag = "list"
    THEN [exc |-> "AttributeError", ledger |-> <<>>, current_balance |-> 0]
    ELSE LET bal == IF "current_balance" \in f.keys THEN f.current_balance ELSE 0
             ds == IF "ledger" \in f.keys THEN f.ledger ELSE <<>>
             r == LoadEntries(ds, <<>>)
         IN [exc |-> r.exc, ledger |-> r.ledger, current_balance |-> bal]

LoadLedger(f) ==
    IF f.tag = "absent"
    THEN [exc |-> "", warned |-> FALSE, ledger |-> <<>>, current_balance |-> 0]
    ELSE LET r == LoadTry(f) IN
         IF r.exc \in CaughtExceptions
         THEN [exc |-> "", warned |-> TRUE, ledger |-> <<>>, current_balance |-> 0]
         ELSE [exc |-> r.exc, warned |-> FALSE, ledger |-> r.ledger,
               current_balance |-> r.current_balance]

------------------------------------------------------------------------------
(* Files found at ledger_path when the program starts *)

SampleDict ==
    EntryDict(BankrollEntry(0, "INITIAL", "initialize", 1, 0, 1,
                            "None", "None", "Initial bankroll setup"))

DictFile(keys, bal, ds) ==
    [tag |-> "dict", keys |-> keys, current_balance |-> bal, ledger |-> ds]

NoTimestamp == [SampleDict EXCEPT !.keys = EntryFields \ {"timestamp"}]
NotIsoTimestamp == [SampleDict EXCEPT !.timestamp = [kind |-> "not_iso", t |-> 0]]
NotStrTimestamp == [SampleDict EXCEPT !.timestamp = [kind |-> "not_str", t |-> 0]]
NoAmount == [SampleDict EXCEPT !.keys = EntryFields \ {"amount"}]
ExtraField == [SampleDict EXCEPT !.keys = EntryFields \cup {"extra"}]

MalformedEntries ==
    {NoTimestamp, NotIsoTimestamp, NotStrTimestamp, NoAmount, ExtraField}

\* absent; empty or not JSON; a JSON list; the JSON object {}; one malformed
\* entry; a well-formed entry followed by a malformed one
InitialFiles ==
    {AbsentFile, UndecodableFile, ListFile, DictFile({}, 0, <<>>)}
    \cup { DictFile({"current_balance", "ledger"}, 1, <<d>>) : d \in MalformedEntries }
    \cup { DictFile({"current_balance", "ledger"}, 1, <<SampleDict, d>>) :
             d \in {NoTimestamp, ExtraField} }

------------------------------------------------------------------------------
(* The entries the three operations build *)

\* Faulty variant: the guard dropped: a second initialize is accepted
AlreadyInitializedNever(l) == FALSE

\* initialize_bankroll, the guard
AlreadyInitialized(l) == l # <<>>

\* initialize_bankroll, the entry
InitializeEntry(ts, amt) ==
    BankrollEntry(ts, "INITIAL", "initialize", amt, 0, amt,
                  "None", "None", "Initial bankroll setup")

\* Faulty variant: off by one: a stake equal to the balance is refused
InsufficientBankrollAtEqual(stake, bal) == stake >= bal

\* Faulty variant: no stake is refused
InsufficientBankrollNever(stake, bal) == FALSE

\* log_bet, the guard
InsufficientBankroll(stake, bal) == stake > bal

\* log_bet, the entry
BetEntry(ts, slip, stake, bal, gs, st) ==
    BankrollEntry(ts, slip, "bet", 0 - stake, bal, bal - stake, gs, st, "None")

\* Faulty variant: the balance is not lowered
BalanceAfterBetKept(bal, stake) == bal

\* log_bet: self.current_balance -= stake_amount
BalanceAfterBet(bal, stake) == bal - stake

\* Faulty variant: balance_after written without the payout
ResultEntryNoPayout(ts, slip, result, payout, bal) ==
    BankrollEntry(ts, slip, result, payout, bal, bal, "None", "None", "None")

\* log_result, the entry
ResultEntry(ts, slip, result, payout, bal) ==
    BankrollEntry(ts, slip, result, payout, bal, bal + payout,
                  "None", "None", "None")

\* log_result: self.current_balance += payout
BalanceAfterResult(bal, payout) == bal + payout

------------------------------------------------------------------------------
(* Calls *)

Call(op, outcome, amt) ==
    [op |-> op, outcome |-> outcome, amount |-> amt]

NoKelly == [called |-> FALSE]

NoCall == [fn |-> "none"]

\* the fields of a BankrollManager that was not constructed yet
NoManager == [mgr |-> "none", ledger |-> <<>>, current_balance |-> 0]

Init ==
    /\ file \in InitialFiles
    /\ mgr = "none"
    /\ ledger = <<>>
    /\ current_balance = 0
    /\ clock = 0
    /\ last = Call("none", "ok", 0)
    /\ kelly = NoKelly
    /\ call = NoCall
    /\ peer = NoManager

\* BankrollManager(ledger_path): a new object, loaded from the file
Construct ==
    LET r == LoadLedger(file) IN
    /\ mgr' = IF r.exc = "" THEN "live" ELSE "raised"
    /\ ledger' = r.ledger
    /\ current_balance' = r.current_balance
    /\ last' = Call("construct", IF r.exc = "" THEN "ok" ELSE r.exc, 0)
    /\ UNCHANGED <<file, clock, kelly, call, peer>>

\* The state after self.ledger.append(entry), the balance update and
\* self.save_ledger() with the given outcome of the write
AppendAndSave(op, amt, entry, bal, outcome) ==
    /\ clock < MaxOps
    /\ ledger' = Append(ledger, entry)
    /\ current_balance' = bal
    /\ file' = SaveLedger(ledger', bal, file, outcome)
    /\ clock' = clock + 1
    /\ last' = Call(op, IF outcome = "ok" THEN "ok" ELSE "OSError", amt)
    /\ UNCHANGED <<mgr, kelly, call, peer>>

Rejected(op, amt) ==
    /\ last' = Call(op, "ValueError", amt)
    /\ UNCHANGED <<file, mgr, ledger, current_balance, clock, kelly, call, peer>>

initialize_bankroll(starting_amount, outcome) ==
    /\ mgr = "live"
    /\ IF AlreadyInitialized(ledger)
       THEN outcome = "ok" /\ Rejected("initialize_bankroll", starting_amount)
       ELSE AppendAndSave("initialize_bankroll", starting_amount,
                          InitializeEntry(clock, starting_amount),
                          starting_amount, outcome)

log_bet(slip_id, stake_amount, tag, outcome) ==
    /\ mgr = "live"
    /\ IF InsufficientBankroll(stake_amount, current_balance)
       THEN outcome = "ok" /\ Rejected("log_bet", stake_amount)
       ELSE AppendAndSave("log_bet", stake_amount,
                          BetEntry(clock, slip_id, stake_amount, current_balance,
                                   tag[1], tag[2]),
                          BalanceAfterBet(current_balance, stake_amount), outcome)

log_result(slip_id, result, payout, outcome) ==
    /\ mgr = "live"
    /\ AppendAndSave("log_result", payout,
                     ResultEntry(clock, slip_id, result, payout, current_balance),
                     BalanceAfterResult(current_balance, payout), outcome)

InitializeBankroll ==
    \E a \in Amounts, o \in SaveOutcomes : initialize_bankroll(a, o)

LogBet ==
    \E s \in SlipIds, a \in Amounts, t \in Tags, o \in SaveOutcomes :
        log_bet(s, a, t, o)

LogResult ==
    \E s \in SlipIds, r \in Results, a \in Amounts, o \in SaveOutcomes :
        log_result(s, r, a, o)

------------------------------------------------------------------------------
(* Exact rational arithmetic for the Kelly sizer: <<numerator, denominator>>
   with a positive denominator, in lowest terms *)

Abs(x) == IF x < 0 THEN 0 - x ELSE x

RECURSIVE Gcd(_, _)
Gcd(a, b) == IF b = 0 THEN a ELSE Gcd(b, a % b)

Rat(n, d) ==
    LET g == Gcd(Abs(n), Abs(d))
        sn == IF d < 0 THEN 0 - n ELSE n
    IN <<sn \div g, Abs(d) \div g>>

RInt(n) == <<n, 1>>
RAdd(x, y) == Rat(x[1] * y[2] + y[1] * x[2], x[2] * y[2])
RSub(x, y) == Rat(x[1] * y[2] - y[1] * x[2], x[2] * y[2])
RMul(x, y) == Rat(x[1] * y[1], x[2] * y[2])
RDiv(x, y) == Rat(x[1] * y[2], x[2] * y[1])
RLe(x, y) == x[1] * y[2] <= y[1] * x[2]
RLt(x, y) == x[1] * y[2] < y[1] * x[2]
RMin(x, y) == IF RLt(y, x) THEN y ELSE x
RMax(x, y) == IF RLt(x, y) THEN y ELSE x

------------------------------------------------------------------------------
(* calculate_kelly_stake *)

Probabilities == {<<0, 1>>, <<1, 4>>, <<2, 5>>, <<1, 2>>, <<3, 5>>, <<3, 4>>, <<1, 1>>}
DecimalOdds == {<<1, 2>>, <<1, 1>>, <<3, 2>>, <<2, 1>>, <<5, 2>>, <<3, 1>>}
Bankrolls == {<<0 - 1, 1>>, <<0, 1>>, <<1, 1>>, <<1000, 1>>}
KellyFractions == {<<0, 1>>, <<1, 4>>, <<1, 1>>}
StakeCaps == {<<0 - 1, 20>>, <<0, 1>>, <<1, 20>>, <<1, 2>>}

\* The numbers are binary64 floats.  b * p - q is rounded after the product
\* and after the difference; where its exact value is 0 the rounded one can
\* be a rounding error away from 0, which changes its sign.  On the inputs
\* above this happens at p = 0.4, odds = 2.5: 1.5 * 0.4 is
\* 0.6000000000000001, 1 - 0.4 is 0.6, the difference is 2^-53.  Everywhere
\* else on these inputs the rounded value has the sign of the exact one, and
\* p * odds - 1 is 0.0 where the exact edge is 0.
\* The error is written 2^-20, the integers of TLC being 32 bits
\* wide: its sign is what the properties read.
RoundingError(p, odds) ==
    IF p = <<2, 5>> /\ odds = <<5, 2>> THEN Rat(1, 1048576) ELSE RInt(0)

\* full Kelly: f = (b*p - q) / b, 0 when b <= 0 or p <= 0
KellyPercentage(p, odds) ==
    LET b == RSub(odds, RInt(1))
        q == RSub(RInt(1), p)
    IN IF RLe(b, RInt(0)) \/ RLe(p, RInt(0))
       THEN RInt(0)
       ELSE RDiv(RAdd(RSub(RMul(b, p), q), RoundingError(p, odds)), b)

\* Faulty variant: the floor at 0 dropped
FinalKellyPercentageNoFloor(fractional_kelly, cap) == RMin(fractional_kelly, cap)

\* min(fractional_kelly, max_stake_percentage), then max(0.0, ...)
FinalKellyPercentage(fractional_kelly, cap) ==
    RMax(RInt(0), RMin(fractional_kelly, cap))

\* the dict returned for a bankroll <= 0
ZeroStake ==
    [kelly_stake |-> RInt(0), recommended_stake |-> RInt(0),
     kelly_percentage |-> RInt(0)]

KellyStake(p, odds, bankroll, kf, cap) ==
    IF RLe(bankroll, RInt(0))
    THEN ZeroStake
    ELSE LET kelly_percentage == KellyPercentage(p, odds)
             final == FinalKellyPercentage(RMul(kelly_percentage, kf), cap)
             kelly_stake == RMul(bankroll, final)
         IN [kelly_stake |-> kelly_stake,
             recommended_stake |-> kelly_stake,
             kelly_percentage |-> RMul(final, RInt(100)),
             full_kelly_percentage |-> RMul(kelly_percentage, RInt(100)),
             edge |-> RSub(RMul(p, odds), RInt(1))]

\* the argument bankroll=None
NoBankroll == <<>>

\* bankroll = self.current_balance when the argument is None.  The function
\* keeps nothing between calls, so a behaviour makes one call of it.
calculate_kelly_stake(p, odds, bankroll, kf, cap) ==
    LET used == IF bankroll = NoBankroll THEN RInt(current_balance) ELSE bankroll IN
    /\ mgr = "live"
    /\ ~kelly.called
    /\ kelly' = [called |-> TRUE, win_probability |-> p, decimal_odds |-> odds,
                 bankroll |-> used, kelly_fraction |-> kf,
                 max_stake_percentage |-> cap,
                 result |-> KellyStake(p, odds, used, kf, cap)]
    /\ last' = Call("calculate_kelly_stake", "ok", 0)
    /\ UNCHANGED <<file, mgr, ledger, current_balance, clock, call, peer>>

CalculateKellyStake ==
    \E p \in Probabilities, odds \in DecimalOdds,
       bankroll \in Bankrolls \cup {NoBankroll},
       kf \in KellyFractions, cap \in StakeCaps :
        calculate_kelly_stake(p, odds, bankroll, kf, cap)

\* A manager on a fresh path, funded by one initialize_bankroll
FundBankroll == \E a \in Amounts : initialize_bankroll(a, "ok")

------------------------------------------------------------------------------
(* Specifications *)

Next == Construct \/ InitializeBankroll \/ LogBet \/ LogResult

Spec == Init /\ [][Next]_vars

\* The Kelly sizer, called on a manager that is new or holds its first entry
InitKelly == Init /\ file = AbsentFile

NextKelly == Construct \/ FundBankroll \/ CalculateKellyStake

SpecKelly == InitKelly /\ [][NextKelly]_vars

------------------------------------------------------------------------------
(* Properties of the ledger *)

Live == mgr = "live"

LastEntry(l) == l[Len(l)]

RECURSIVE SumAmounts(_)
SumAmounts(l) == IF l = <<>> THEN 0 ELSE Head(l).amount + SumAmounts(Tail(l))

AppendOps == {"initialize_bankroll", "log_bet", "log_result"}

\* the step extends the ledger by one entry at the end
ExtendsByOne == Len(ledger') = Len(ledger) + 1 /\ SubSeq(ledger', 1, Len(ledger)) = ledger

\* C1: on a manager, after any calls (those that fail included), the current
\* balance is the balance_after of the last entry and is the amount of the
\* first entry (the initialize amount) plus the amounts of all later entries.
C1_BalanceIsLedgerSum ==
    Live /\ ledger # <<>> =>
        /\ current_balance = LastEntry(ledger).balance_after
        /\ current_balance = Head(ledger).amount + SumAmounts(Tail(ledger))

\* initialize(1), bet(1), win(1), then an initialize that is refused
C1_Witness ==
    /\ Live /\ Len(ledger) = 3
    /\ ledger[1].action = "initialize" /\ ledger[1].amount = 1
    /\ ledger[2].action = "bet" /\ ledger[2].amount = 0 - 1
    /\ ledger[3].action = "win" /\ ledger[3].amount = 1
    /\ current_balance = 1
    /\ last.op = "initialize_bankroll" /\ last.outcome = "ValueError"

\* C2: every entry has balance_after = balance_before + amount, and every
\* entry after the first starts from the balance_after of the one before it.
C2_EntriesChain ==
    Live =>
        \A i \in 1..Len(ledger) :
            /\ ledger[i].balance_after = ledger[i].balance_before + ledger[i].amount
            /\ i > 1 => ledger[i].balance_before = ledger[i - 1].balance_after

C2_Witness ==
    /\ Live /\ Len(ledger) = 3
    /\ ledger[2].action = "bet" /\ ledger[2].amount # 0
    /\ ledger[3].action \in Results /\ ledger[3].amount # 0

\* C3: log_bet with a stake above the balance raises the validation error
\* and changes neither ledger, balance nor file; with a stake not above the
\* balance it appends one "bet" entry of amount -stake and lowers the balance
\* by the stake.
C3_LogBet ==
    [][ last'.op = "log_bet" =>
          IF last'.amount > current_balance
          THEN /\ last'.outcome = "ValueError"
               /\ ledger' = ledger /\ current_balance' = current_balance
               /\ file' = file
          ELSE /\ last'.outcome # "ValueError"
               /\ ExtendsByOne
               /\ LastEntry(ledger').action = "bet"
               /\ LastEntry(ledger').amount = 0 - last'.amount
               /\ current_balance' = current_balance - last'.amount ]_vars

\* a bet was taken, a later one was refused
C3_Witness ==
    /\ Live /\ last.op = "log_bet" /\ last.outcome = "ValueError"
    /\ last.amount > current_balance
    /\ ledger # <<>> /\ LastEntry(ledger).action = "bet"

\* C4: initialize_bankroll on a ledger that holds an entry raises the
\* validation error and changes neither ledger nor balance; on an empty ledger
\* it appends one entry: action "initialize", balance_before 0, balance_after
\* the starting amount.
C4_Initialize ==
    [][ last'.op = "initialize_bankroll" =>
          IF ledger # <<>>
          THEN /\ last'.outcome = "ValueError"
               /\ ledger' = ledger /\ current_balance' = current_balance
          ELSE /\ last'.outcome # "ValueError"
               /\ Len(ledger') = 1
               /\ ledger'[1].action = "initialize"
               /\ ledger'[1].balance_before = 0
               /\ ledger'[1].balance_after = last'.amount ]_vars

\* a second initialize, refused
C4_Witness ==
    /\ Live /\ last.op = "initialize_bankroll" /\ last.outcome = "ValueError"
    /\ Len(ledger) = 1 /\ ledger[1].action = "initialize"

\* C5: the ledger of one manager is append-only: a call that succeeds extends
\* it by one entry at the end, a call that fails leaves it as it was, and it
\* never shrinks.
C5_AppendOnly ==
    [][ last'.op \in AppendOps =>
          /\ last'.outcome = "ok" => ExtendsByOne
          /\ last'.outcome # "ok" => ledger' = ledger
          /\ Len(ledger') >= Len(ledger) ]_vars

\* C6: a ledger that holds entries starts with its one "initialize" entry,
\* and a manager's ledger that holds entries keeps holding entries.
C6_OnlyInitializeActivates ==
    [][ /\ Live' /\ ledger' # <<>> =>
             /\ ledger'[1].action = "initialize"
             /\ Cardinality({i \in 1..Len(ledger') :
                                ledger'[i].action = "initialize"}) = 1
        /\ last'.op # "construct" /\ ledger # <<>> => ledger' # <<>> ]_vars

\* C7: after initialize_bankroll / log_bet / log_result on a file that was
\* absent or complete, also when the write failed, the file holds the state
\* before the call or the state after it, and the ledger and balance in
\* memory are what the file holds.
C7_AtomicAppend ==
    [][ ( /\ last'.op \in AppendOps /\ last'.outcome # "ValueError"
          /\ LoadLedger(file).exc = "" /\ ~LoadLedger(file).warned )
        => /\ file' \in {file, JsonDump(ledger', current_balance')}
           /\ LET r == LoadLedger(file') IN
                  /\ r.exc = "" /\ ~r.warned
                  /\ r.ledger = ledger'
                  /\ r.current_balance = current_balance' ]_vars

WellFormedFile(f) ==
    /\ f.tag = "dict"
    /\ \A i \in 1..Len(f.ledger) : EntryLoadError(f.ledger[i]) = ""

\* C8: constructing a manager raises nothing whatever the file holds, and
\* with an absent or malformed file the manager has an empty ledger and
\* balance 0.
C8_LoadNeverRaises ==
    last.op = "construct" =>
        /\ last.outcome = "ok"
        /\ ~WellFormedFile(file) => ledger = <<>> /\ current_balance = 0

------------------------------------------------------------------------------
(* Properties of the Kelly sizer *)

\* C9: for a win probability in [0, 1], any decimal odds, a bankroll > 0,
\* kelly_fraction >= 0 and max_stake_percentage >= 0, kelly_stake is >= 0 and
\* <= max_stake_percentage * bankroll, and edge = win_probability *
\* decimal_odds - 1.
C9_KellyStakeBounded ==
    ( /\ kelly.called
      /\ RLe(RInt(0), kelly.win_probability)
      /\ RLe(kelly.win_probability, RInt(1))
      /\ RLt(RInt(0), kelly.bankroll)
      /\ RLe(RInt(0), kelly.kelly_fraction)
      /\ RLe(RInt(0), kelly.max_stake_percentage) )
    => /\ RLe(RInt(0), kelly.result.kelly_stake)
       /\ RLe(kelly.result.kelly_stake,
              RMul(kelly.max_stake_percentage, kelly.bankroll))
       /\ kelly.result.edge =
              RSub(RMul(kelly.win_probability, kelly.decimal_odds), RInt(1))

\* p = 0.6 at odds 2.0, quarter Kelly, cap 5 %, bankroll 1000: stake 50
C9_Witness ==
    /\ kelly.called
    /\ kelly.win_probability = <<3, 5>> /\ kelly.decimal_odds = <<2, 1>>
    /\ kelly.kelly_fraction = <<1, 4>> /\ kelly.max_stake_percentage = <<1, 20>>
    /\ kelly.bankroll = <<1000, 1>>
    /\ kelly.result.kelly_stake = <<50, 1>>
    /\ kelly.result.edge = <<1, 5>>

\* C10: with a bankroll <= 0 the result holds the stake, the Kelly
\* percentage, the full-Kelly percentage and the edge, each 0.
C10_ZeroBankrollAllZero ==
    kelly.called /\ RLe(kelly.bankroll, RInt(0)) =>
        /\ {"kelly_stake", "kelly_percentage", "full_kelly_percentage", "edge"}
               \subseteq DOMAIN kelly.result
        /\ kelly.result.kelly_stake = RInt(0)
        /\ kelly.result.kelly_percentage = RInt(0)
        /\ kelly.result.full_kelly_percentage = RInt(0)
        /\ kelly.result.edge = RInt(0)

------------------------------------------------------------------------------
(* The 3-pick slip builder, src/gpicks.py                                    *)
(*                                                                           *)
(* Python floats are modelled by exact rationals.  normal_cdf needs erf; it  *)
(* is tabulated, to three decimals, at the z values the picks below yield.   *)
(* A sum the code forms in binary floating point can fall one unit in the    *)
(* last place beside the exact one (0.30 + (-0.10) is just below 0.20): the  *)
(* thresholds are then compared with the sum as computed, here with the      *)
(* exact sum.                                                                *)

SIGMA_RULES(stat_type) ==
    CASE stat_type = "receiving_yards" -> <<Rat(28, 100), RInt(9)>>
      [] stat_type = "receptions"      -> <<Rat(38, 100), Rat(12, 10)>>
      [] stat_type = "rushing_yards"   -> <<Rat(30, 100), RInt(10)>>
      [] stat_type = "rush_rec_yards"  -> <<Rat(27, 100), RInt(12)>>
      [] stat_type = "passing_yards"   -> <<Rat(22, 100), RInt(18)>>
      [] stat_type = "passing_tds"     -> <<Rat(55, 100), Rat(6, 10)>>
      [] stat_type = "rushing_tds"     -> <<Rat(70, 100), Rat(5, 10)>>
      [] stat_type = "fantasy_points"  -> <<Rat(40, 100), RInt(4)>>
      [] OTHER                         -> <<Rat(30, 100), RInt(10)>>

ARCH_VOL(role_archetype) ==
    CASE role_archetype = "alpha_wr"        -> Rat(9, 10)
      [] role_archetype = "slot_wr"         -> RInt(1)
      [] role_archetype = "field_stretcher" -> Rat(12, 10)
      [] role_archetype = "rb1"             -> Rat(95, 100)
      [] role_archetype = "rb2"             -> Rat(11, 10)
      [] role_archetype = "pass_rb"         -> Rat(105, 100)
      [] role_archetype = "te1"             -> Rat(105, 100)
      [] role_archetype = "te2"             -> Rat(125, 100)
      [] role_archetype = "qb"              -> Rat(9, 10)
      [] OTHER                              -> Rat(11, 10)

\* CORR_PRIORS: (stat_a, stat_b, script_name) -> prior
CORR_PRIORS ==
    (<<"passing_yards", "receiving_yards", "shootout">> :> Rat(45, 100)) @@
    (<<"passing_yards", "receptions", "shootout">> :> Rat(40, 100)) @@
    (<<"passing_yards", "receiving_yards", "BUF_control">> :> Rat(30, 100)) @@
    (<<"rushing_yards", "passing_yards", "BUF_control">> :> Rat(0 - 10, 100)) @@
    (<<"rushing_yards", "receptions", "BUF_control">> :> Rat(5, 100)) @@
    (<<"rush_rec_yards", "passing_yards", "shootout">> :> Rat(25, 100)) @@
    (<<"rush_rec_yards", "receiving_yards", "shootout">> :> Rat(20, 100)) @@
    (<<"receptions", "receiving_yards", "neutral">> :> Rat(35, 100)) @@
    (<<"rushing_yards", "rush_rec_yards", "neutral">> :> Rat(30, 100))

\* dict.get(key, default)
DictGet(d, key, default) == IF key \in DOMAIN d THEN d[key] ELSE default

\* 0.5 * (1 + erf(x / sqrt 2)), tabulated
normal_cdf(x) ==
    CASE x = Rat(0 - 50, 99)   -> Rat(307, 1000)
      [] x = Rat(0 - 125, 126) -> Rat(161, 1000)
      [] x = Rat(0 - 100, 399) -> Rat(401, 1000)
      [] x = Rat(0 - 10, 57)   -> Rat(430, 1000)
      [] x = Rat(100, 297)     -> Rat(632, 1000)
      [] x = Rat(0 - 225, 7)   -> Rat(0, 1000)
      [] x = Rat(0 - 61, 28)   -> Rat(15, 1000)
      [] x = Rat(0 - 15, 7)    -> Rat(16, 1000)
      [] x = Rat(0 - 5, 3)     -> Rat(48, 1000)
      [] x = Rat(0 - 1, 9)     -> Rat(456, 1000)
      [] x = Rat(0, 1)         -> Rat(500, 1000)
      [] x = Rat(1, 28)        -> Rat(514, 1000)
      [] x = Rat(1, 9)         -> Rat(544, 1000)
      [] x = Rat(15, 7)        -> Rat(984, 1000)
      [] x = Rat(25, 7)        -> Rat(1000, 1000)

get_sigma(stat_type, line, role_archetype) ==
    LET pct == SIGMA_RULES(stat_type)[1]
        floor == SIGMA_RULES(stat_type)[2]
        vol_mult == ARCH_VOL(role_archetype)
        base == RMax(RMul(line, pct), floor)
    IN RMul(base, vol_mult)

compute_win_prob(line, proj, sigma, direction) ==
    LET z == RDiv(RSub(line, proj), sigma) IN
    IF direction = "Over" THEN RSub(RInt(1), normal_cdf(z)) ELSE normal_cdf(z)

\* Faulty variant: the Low-Variance rule tried first
classify_role_low_first(ev_pct, win_prob, stat_type, role_archetype) ==
    IF /\ stat_type \in {"receptions", "rushing_yards", "receiving_yards"}
       /\ role_archetype \in {"te1", "rb1", "slot_wr"}
       /\ RLe(Rat(58, 100), win_prob)
    THEN "Low-Variance"
    ELSE IF RLe(RInt(12), ev_pct) /\ RLe(Rat(62, 100), win_prob)
    THEN "Anchor"
    ELSE "Correlation"

classify_role(ev_pct, win_prob, stat_type, role_archetype) ==
    IF RLe(RInt(12), ev_pct) /\ RLe(Rat(62, 100), win_prob)
    THEN "Anchor"
    ELSE IF /\ stat_type \in {"receptions", "rushing_yards", "receiving_yards"}
            /\ role_archetype \in {"te1", "rb1", "slot_wr"}
            /\ RLe(Rat(58, 100), win_prob)
    THEN "Low-Variance"
    ELSE "Correlation"

\* One row of the picks table: the columns the builder reads
Row(id, stat_type, line, projection, role_archetype) ==
    [id |-> id, stat_type |-> stat_type, line |-> line,
     projection |-> projection, role_archetype |-> role_archetype]

\* Pick(...) with the computed fields at their defaults
row_to_pick(r) ==
    [id |-> r.id, stat_type |-> r.stat_type, line |-> r.line,
     projection |-> r.projection, role_archetype |-> r.role_archetype,
     ev_pct |-> RInt(0), win_prob |-> RInt(0), rec |-> "",
     sigma |-> RInt(0), role_tag |-> ""]

RAbs(x) == <<Abs(x[1]), x[2]>>

\* Faulty variant: the relative gap left as it is
score_pick_unclamped(p) ==
    LET sigma == get_sigma(p.stat_type, p.line, p.role_archetype)
        direction == IF RLe(p.line, p.projection) THEN "Over" ELSE "Under"
        win_prob == compute_win_prob(p.line, p.projection, sigma, direction)
        gap == RSub(p.projection, p.line)
        denom == RMax(RAbs(p.line), Rat(1, 1000000))
        ev_pct == RMul(RDiv(gap, denom), RInt(100))
    IN [p EXCEPT !.sigma = sigma, !.rec = direction, !.win_prob = win_prob,
                 !.ev_pct = ev_pct,
                 !.role_tag = classify_role(ev_pct, win_prob, p.stat_type,
                                            p.role_archetype)]

score_pick(p) ==
    LET sigma == get_sigma(p.stat_type, p.line, p.role_archetype)
        direction == IF RLe(p.line, p.projection) THEN "Over" ELSE "Under"
        win_prob == compute_win_prob(p.line, p.projection, sigma, direction)
        gap == RSub(p.projection, p.line)
        denom == RMax(RAbs(p.line), Rat(1, 1000000))
        ev_pct == RMax(RMin(RMul(RDiv(gap, denom), RInt(100)), RInt(60)),
                       RInt(0 - 60))
    IN [p EXCEPT !.sigma = sigma, !.rec = direction, !.win_prob = win_prob,
                 !.ev_pct = ev_pct,
                 !.role_tag = classify_role(ev_pct, win_prob, p.stat_type,
                                            p.role_archetype)]

\* Faulty variant: only the key as given is looked up
pair_corr_one_way(a, b, script_name) ==
    DictGet(CORR_PRIORS, <<a.stat_type, b.stat_type, script_name>>, RInt(0))

pair_corr(a, b, script_name) ==
    LET key == <<a.stat_type, b.stat_type, script_name>>
        rev == <<b.stat_type, a.stat_type, script_name>>
    IN DictGet(CORR_PRIORS, key, DictGet(CORR_PRIORS, rev, RInt(0)))

RECURSIVE CorrSumFrom(_, _, _, _)
\* for i in range(len(picks)): for j in range(i + 1, len(picks)): corr_sum += ...
CorrSumFrom(picks, script_name, i, j) ==
    IF i > Len(picks) THEN RInt(0)
    ELSE IF j > Len(picks) THEN CorrSumFrom(picks, script_name, i + 1, i + 2)
    ELSE RAdd(pair_corr(picks[i], picks[j], script_name),
              CorrSumFrom(picks, script_name, i, j + 1))

RECURSIVE RSum(_)
\* sum(...) of a sequence of numbers
RSum(xs) == IF xs = <<>> THEN RInt(0) ELSE RAdd(Head(xs), RSum(Tail(xs)))

\* sum(1 for p in picks if p.role_tag == tag)
CountTag(picks, tag) == Cardinality({i \in 1..Len(picks) : picks[i].role_tag = tag})

\* Faulty variant: the correlation term subtracted
OverallMinusCorr(avg_prob, avg_ev, corr_sum) ==
    RSub(RAdd(RMul(Rat(4, 10), RMul(avg_prob, RInt(100))),
              RMul(Rat(3, 10), RAdd(avg_ev, RInt(100)))),
         RMul(Rat(3, 10), RDiv(RMul(corr_sum, RInt(100)), RInt(3))))

\* 0.4 * (avg_prob * 100) + 0.3 * (avg_ev + 100) + 0.3 * (corr_sum * 100 / 3)
Overall(avg_prob, avg_ev, corr_sum) ==
    RAdd(RAdd(RMul(Rat(4, 10), RMul(avg_prob, RInt(100))),
              RMul(Rat(3, 10), RAdd(avg_ev, RInt(100)))),
         RMul(Rat(3, 10), RDiv(RMul(corr_sum, RInt(100)), RInt(3))))

\* Faulty variant: grade A given at the correlation threshold of grade B
GradeLowCorrA(role_score, corr_sum, avg_prob) ==
    IF role_score = 3 /\ RLe(Rat(20, 100), corr_sum) /\ RLe(Rat(63, 100), avg_prob)
    THEN "A"
    ELSE IF role_score >= 2 /\ RLe(Rat(20, 100), corr_sum)
            /\ RLe(Rat(60, 100), avg_prob)
    THEN "B"
    ELSE "C"

\* the conditional expression under "grade"
Grade(role_score, corr_sum, avg_prob) ==
    IF role_score = 3 /\ RLe(Rat(35, 100), corr_sum) /\ RLe(Rat(63, 100), avg_prob)
    THEN "A"
    ELSE IF role_score >= 2 /\ RLe(Rat(20, 100), corr_sum)
            /\ RLe(Rat(60, 100), avg_prob)
    THEN "B"
    ELSE "C"

\* True + True + False = 2
BoolInt(b) == IF b THEN 1 ELSE 0

slip_quality(picks, script_name) ==
    LET anchors == CountTag(picks, "Anchor")
        lows == CountTag(picks, "Low-Variance")
        cors == CountTag(picks, "Correlation")
        role_score == BoolInt(anchors >= 1) + BoolInt(lows >= 1) + BoolInt(cors >= 1)
        corr_sum == CorrSumFrom(picks, script_name, 1, 2)
        avg_ev == RDiv(RSum([i \in 1..Len(picks) |-> picks[i].ev_pct]),
                       RInt(Len(picks)))
        avg_prob == RDiv(RSum([i \in 1..Len(picks) |-> picks[i].win_prob]),
                         RInt(Len(picks)))
    IN [anchors |-> anchors, low_variance |-> lows, correlation_picks |-> cors,
        corr_sum |-> corr_sum, avg_ev_pct |-> avg_ev, avg_win_prob |-> avg_prob,
        overall_score |-> Overall(avg_prob, avg_ev, corr_sum),
        grade |-> Grade(role_score, corr_sum, avg_prob)]

------------------------------------------------------------------------------
(* suggest_slips and the --slip branch of main *)

RNeg(x) == <<0 - x[1], x[2]>>

RECURSIVE Pow10(_)
Pow10(n) == IF n = 0 THEN 1 ELSE 10 * Pow10(n - 1)

\* round(x, ndigits): to the nearest multiple of 10^-ndigits, a tie to the
\* even one (taken on the exact value, not on its binary approximation)
Round(x, ndigits) ==
    LET scale == Pow10(ndigits)
        n == x[1] * scale
        d == x[2]
        fl == n \div d
        twice == 2 * (n - fl * d)
        r == IF twice < d THEN fl
             ELSE IF twice > d THEN fl + 1
             ELSE IF fl % 2 = 0 THEN fl ELSE fl + 1
    IN Rat(r, scale)

\* lexicographic order on equally long tuples of numbers
LexLess(k1, k2) ==
    \E i \in 1..Len(k1) :
        /\ \A j \in 1..(i - 1) : k1[j] = k2[j]
        /\ RLt(k1[i], k2[i])

\* F applied to the value of v, which is computed once
Eval(v, F(_)) == CHOOSE r \in { F(x) : x \in {v} } : TRUE

\* the place a stable ascending sort gives to the i-th of the keys
SortedPlace(keys, i) ==
    Cardinality({j \in 1..Len(keys) : LexLess(keys[j], keys[i])})
    + Cardinality({j \in 1..(i - 1) : keys[j] = keys[i]}) + 1

\* sort_values: ascending on Key, rows of equal keys keep their order
SortValues(rows, Key(_)) ==
    Eval([k \in 1..Len(rows) |-> Key(rows[k])], LAMBDA keys :
        Eval([i \in 1..Len(rows) |-> SortedPlace(keys, i)], LAMBDA place :
            [k \in 1..Len(rows) |->
                rows[CHOOSE i \in 1..Len(rows) : place[i] = k]]))

\* itertools.combinations(range(n), 3): index triples in lexicographic order
Combinations3(n) ==
    LET T == {t \in (1..n) \X (1..n) \X (1..n) : t[1] < t[2] /\ t[2] < t[3]}
        Before(u, t) == \/ u[1] < t[1]
                        \/ u[1] = t[1] /\ u[2] < t[2]
                        \/ u[1] = t[1] /\ u[2] = t[2] /\ u[3] < t[3]
        Place(t) == Cardinality({u \in T : Before(u, t)}) + 1
    IN [k \in 1..Cardinality(T) |-> CHOOSE t \in T : Place(t) = k]

\* the dict appended to rows for the combination (a, b, c)
SlipRow(a, b, c, script_name) ==
    LET q == slip_quality(<<a, b, c>>, script_name) IN
    [ids |-> <<a.id, b.id, c.id>>,
     avg_win_prob |-> Round(RMul(q.avg_win_prob, RInt(100)), 2),
     avg_ev_pct |-> Round(q.avg_ev_pct, 2),
     corr_sum |-> Round(q.corr_sum, 3),
     overall_score |-> Round(q.overall_score, 1),
     grade |-> q.grade]

\* the order of the strings "A" < "B" < "C"
GradeOrd(g) == CASE g = "A" -> 65 [] g = "B" -> 66 [] g = "C" -> 67

\* grade_order = {"A": 0, "B": 1, "C": 2}
grade_order(g) == CASE g = "A" -> 0 [] g = "B" -> 1 [] g = "C" -> 2

\* ["grade", "overall_score", "corr_sum"], ascending=[True, False, False]
FirstSortKey(row) ==
    <<RInt(GradeOrd(row.grade)), RNeg(row.overall_score), RNeg(row.corr_sum)>>

\* Faulty variant: the score ascending
SecondSortKeyAscending(row) ==
    <<RInt(grade_order(row.grade)), row.overall_score>>

\* ["grade_rank", "overall_score"], ascending=[True, False]
SecondSortKey(row) ==
    <<RInt(grade_order(row.grade)), RNeg(row.overall_score)>>

\* DataFrame.head(n) for n >= 0
Head_n(rows, n) == SubSeq(rows, 1, IF n < Len(rows) THEN n ELSE Len(rows))

\* rows, after the loop over combinations(picks, 3)
SlipRows(picks, script_name) ==
    Eval(Combinations3(Len(picks)), LAMBDA combos :
        [k \in 1..Len(combos) |->
            SlipRow(picks[combos[k][1]], picks[combos[k][2]],
                    picks[combos[k][3]], script_name)])

\* sort_values on a frame built from no rows finds no column "grade"
suggest_slips(df, top_k, script_name) ==
    Eval([i \in 1..Len(df) |-> score_pick(row_to_pick(df[i]))], LAMBDA picks :
    Eval(SlipRows(picks, script_name), LAMBDA rows :
        IF rows = <<>>
        THEN [exc |-> "KeyError", evaluated |-> rows, out |-> <<>>]
        ELSE Eval(SortValues(rows, FirstSortKey), LAMBDA out1 :
             Eval(SortValues(out1, SecondSortKey), LAMBDA out2 :
                [exc |-> "", evaluated |-> rows, out |-> Head_n(out2, top_k)]))))

\* df[df["id"].isin(ids)]
IsIn(df, ids) ==
    LET keep == {i \in 1..Len(df) : \E k \in 1..Len(ids) : ids[k] = df[i].id}
        Place(i) == Cardinality({j \in keep : j < i}) + 1
    IN [k \in 1..Cardinality(keep) |-> df[CHOOSE i \in keep : Place(i) = k]]

\* main, the branch taken when --slip is given
main_slip(df, ids, script_name) ==
    LET sub == IsIn(df, ids) IN
    IF Len(sub) # 3
    THEN [outcome |-> "exit 1", sub |-> sub]
    ELSE [outcome |-> "evaluated", sub |-> sub,
          q |-> slip_quality([i \in 1..3 |-> score_pick(row_to_pick(sub[i]))],
                             script_name)]

------------------------------------------------------------------------------
(* Inputs of the slip builder *)

\* a picks table: a quarterback, two receivers and two backs of one game
PicksCsv ==
    << Row(1, "passing_yards", RInt(250), RInt(275), "qb"),
       Row(2, "receiving_yards", RInt(60), RInt(75), "alpha_wr"),
       Row(3, "receptions", RInt(5), Rat(11, 2), "te1"),
       Row(4, "rushing_yards", RInt(80), RInt(84), "rb1"),
       Row(5, "rush_rec_yards", RInt(100), RInt(90), "rb2") >>

\* the three scripts of the priors and one they do not know
Scripts == {"shootout", "BUF_control", "neutral", "blowout"}

StatTypes ==
    {"passing_yards", "receiving_yards", "receptions", "rushing_yards",
     "rush_rec_yards", "passing_tds"}

Archetypes == {"te1", "rb1", "slot_wr", "qb", "alpha_wr"}

\* on both sides of 12.0
EvPcts == {Rat(23, 2), RInt(12), RInt(20)}

\* on both sides of 0.58 and of 0.62
WinProbs == {Rat(57, 100), Rat(58, 100), Rat(61, 100), Rat(62, 100), Rat(70, 100)}

\* rows of a table handed to suggest_slips
MaxPicks == 4

\* --suggest K
MaxTopK == 3

\* ids written after --slip
MaxIds == 4

\* tables made of rows of PicksCsv, each row at most once, in any order
Tables ==
    LET Rows == {PicksCsv[i] : i \in 1..Len(PicksCsv)} IN
    { t \in UNION { [1..n -> Rows] : n \in 0..MaxPicks } :
        \A i, j \in 1..Len(t) : i # j => t[i] # t[j] }

\* the ids of four rows of PicksCsv and one id no row has
SlipIdPool == {1, 2, 3, 4, 9}

\* an empty --slip is no --slip
IdLists == UNION { [1..n -> SlipIdPool] : n \in 1..MaxIds }

\* line and projection of a pick to score: gaps inside, on and beyond the
\* caps, a line of zero and a negative line
ScoreInputs ==
    { <<100, 1000>>, <<100, 161>>, <<100, 160>>, <<100, 100>>, <<100, 99>>,
      <<100, 40>>, <<100, 0>>, <<0, 1>>, <<0, 0>>, <<0, 0 - 1>>,
      <<0 - 10, 5>>, <<0 - 10, 0 - 11>> }

\* a Pick of which only the stat type matters
StatPick(stat_type) ==
    row_to_pick(Row(0, stat_type, RInt(1), RInt(1), "other"))

\* three different picks, in the order of the table
Slips ==
    LET c == Combinations3(Len(PicksCsv)) IN
    { [i \in 1..3 |-> score_pick(row_to_pick(PicksCsv[c[k][i]]))] : k \in 1..Len(c) }

------------------------------------------------------------------------------
(* Calls of the slip builder's functions *)

\* what a function that touches no object leaves alone
ObjectState == <<file, mgr, ledger, current_balance, clock, last, kelly, peer>>

\* The functions keep nothing between calls, so a behaviour calls one of
\* them once
FirstCall == call = NoCall

ClassifyRole ==
    /\ FirstCall
    /\ \E ev_pct \in EvPcts, win_prob \in WinProbs,
       stat_type \in StatTypes, role_archetype \in Archetypes :
        /\ call' = [fn |-> "classify_role", ev_pct |-> ev_pct,
                    win_prob |-> win_prob, stat_type |-> stat_type,
                    role_archetype |-> role_archetype,
                    result |-> classify_role(ev_pct, win_prob, stat_type,
                                             role_archetype)]
        /\ UNCHANGED ObjectState

\* pair_corr(a, b, script_name) and pair_corr(b, a, script_name)
PairCorr ==
    /\ FirstCall
    /\ \E a \in StatTypes, b \in StatTypes, script_name \in Scripts :
        /\ call' = [fn |-> "pair_corr", a |-> a, b |-> b,
                    script_name |-> script_name,
                    result |-> pair_corr(StatPick(a), StatPick(b), script_name),
                    swapped |-> pair_corr(StatPick(b), StatPick(a), script_name)]
        /\ UNCHANGED ObjectState

ScorePick ==
    /\ FirstCall
    /\ \E lp \in ScoreInputs :
        LET p == row_to_pick(Row(1, "receiving_yards", RInt(lp[1]), RInt(lp[2]),
                                 "slot_wr"))
        IN /\ call' = [fn |-> "score_pick", p |-> p, result |-> score_pick(p)]
           /\ UNCHANGED ObjectState

\* slip_quality may be called a second time, to set two slips side by side:
\* prev is what the first call returned
SlipQuality ==
    /\ \/ FirstCall
       \/ call.fn = "slip_quality" /\ ~call.second
    /\ \E picks \in Slips, script_name \in Scripts :
        LET q == slip_quality(picks, script_name) IN
        /\ call' = [fn |-> "slip_quality", picks |-> picks,
                    script_name |-> script_name, result |-> q,
                    second |-> ~FirstCall,
                    prev |-> IF FirstCall THEN q ELSE call.result]
        /\ UNCHANGED ObjectState

SuggestSlips ==
    /\ FirstCall
    /\ \E df \in Tables, top_k \in 0..MaxTopK, script_name \in Scripts :
        /\ call' = [fn |-> "suggest_slips", df |-> df, top_k |-> top_k,
                    script_name |-> script_name,
                    result |-> suggest_slips(df, top_k, script_name)]
        /\ UNCHANGED ObjectState

MainSlip ==
    /\ FirstCall
    /\ \E ids \in IdLists, script_name \in Scripts :
        /\ call' = [fn |-> "main_slip", df |-> PicksCsv, ids |-> ids,
                    script_name |-> script_name,
                    result |-> main_slip(PicksCsv, ids, script_name)]
        /\ UNCHANGED ObjectState

InitPicks == Init /\ file = AbsentFile

NextPicks ==
    \/ ClassifyRole \/ PairCorr \/ ScorePick \/ SlipQuality
    \/ SuggestSlips \/ MainSlip

SpecPicks == InitPicks /\ [][NextPicks]_vars

------------------------------------------------------------------------------
(* Properties of the slip builder *)

RoleTags == {"Anchor", "Low-Variance", "Correlation"}

\* the tags a slip covers
Coverage(picks) == {picks[i].role_tag : i \in 1..Len(picks)}

\* grade g1 is not worse than grade g2
NotWorse(g1, g2) == g1 = "A" \/ g2 = "C" \/ (g1 = "B" /\ g2 = "B")

\* C11: slip_quality gives grade A exactly when the slip covers all three
\* role tags, its correlation sum is at least 0.35 and its average win
\* probability at least 0.63; otherwise B exactly when it covers at least two
\* tags, the sum is at least 0.20 and the average at least 0.60; otherwise C.
C11_GradeRule ==
    call.fn = "slip_quality" =>
        LET q == call.result
            tags == Coverage(call.picks)
            ruleA == /\ tags = RoleTags
                     /\ RLe(Rat(35, 100), q.corr_sum)
                     /\ RLe(Rat(63, 100), q.avg_win_prob)
            ruleB == /\ Cardinality(tags) >= 2
                     /\ RLe(Rat(20, 100), q.corr_sum)
                     /\ RLe(Rat(60, 100), q.avg_win_prob)
        IN /\ q.grade = "A" <=> ruleA
           /\ q.grade = "B" <=> ~ruleA /\ ruleB
           /\ q.grade = "C" <=> ~ruleA /\ ~ruleB

\* a slip of all three tags and a high average that the correlation sum alone
\* keeps out of grade A
C11_Witness ==
    /\ call.fn = "slip_quality"
    /\ Coverage(call.picks) = RoleTags
    /\ RLe(Rat(63, 100), call.result.avg_win_prob)
    /\ RLt(call.result.corr_sum, Rat(35, 100))
    /\ call.result.grade = "B"

\* the number of tags a result counts at least once
RoleScore(q) ==
    BoolInt(q.anchors >= 1) + BoolInt(q.low_variance >= 1)
    + BoolInt(q.correlation_picks >= 1)

\* the second result is at least as high as the first in all three measures
AtLeastAsHigh(q1, q2) ==
    /\ RLe(q1.avg_win_prob, q2.avg_win_prob)
    /\ RLe(q1.avg_ev_pct, q2.avg_ev_pct)
    /\ RLe(q1.corr_sum, q2.corr_sum)

\* C12: of two slips covering as many role tags, the one that is at least as
\* high in average win probability, average EV and correlation sum has a
\* grade that is not worse and an overall score that is not lower.
C12_Monotone ==
    (call.fn = "slip_quality" /\ call.second) =>
        LET q1 == call.prev
            q2 == call.result
        IN (RoleScore(q1) = RoleScore(q2) /\ AtLeastAsHigh(q1, q2)) =>
              /\ NotWorse(q2.grade, q1.grade)
              /\ RLe(q1.overall_score, q2.overall_score)

\* two slips of equal coverage, the second higher in all three measures and
\* of a better grade
C12_Witness ==
    /\ call.fn = "slip_quality" /\ call.second
    /\ RoleScore(call.prev) = RoleScore(call.result)
    /\ RLt(call.prev.avg_win_prob, call.result.avg_win_prob)
    /\ RLt(call.prev.avg_ev_pct, call.result.avg_ev_pct)
    /\ RLt(call.prev.corr_sum, call.result.corr_sum)
    /\ call.prev.grade = "B" /\ call.result.grade = "A"

\* the condition of the Anchor rule
AnchorRule(c) == RLe(RInt(12), c.ev_pct) /\ RLe(Rat(62, 100), c.win_prob)

\* the condition of the Low-Variance rule
LowVarianceRule(c) ==
    /\ c.stat_type \in {"receptions", "rushing_yards", "receiving_yards"}
    /\ c.role_archetype \in {"te1", "rb1", "slot_wr"}
    /\ RLe(Rat(58, 100), c.win_prob)

\* C13: classify_role gives exactly one tag: Anchor when ev_pct >= 12.0 and
\* win_prob >= 0.62, whether or not the Low-Variance conditions hold too;
\* otherwise Low-Variance when the stat type, the archetype and
\* win_prob >= 0.58 fit; otherwise Correlation.
C13_RuleOrder ==
    call.fn = "classify_role" =>
        /\ call.result \in RoleTags
        /\ call.result = "Anchor" <=> AnchorRule(call)
        /\ call.result = "Low-Variance" <=> ~AnchorRule(call) /\ LowVarianceRule(call)
        /\ call.result = "Correlation" <=> ~AnchorRule(call) /\ ~LowVarianceRule(call)

\* both rules fit and the pick is an Anchor
C13_Witness ==
    /\ call.fn = "classify_role"
    /\ AnchorRule(call) /\ LowVarianceRule(call)
    /\ call.result = "Anchor"

\* C16: pair_corr gives the same value for (a, b) and for (b, a), the prior
\* of whichever ordering the table holds, and 0.0 when it holds neither.
C16_PairCorrSymmetric ==
    call.fn = "pair_corr" =>
        LET key == <<call.a, call.b, call.script_name>>
            rev == <<call.b, call.a, call.script_name>>
        IN /\ call.result = call.swapped
           /\ key \in DOMAIN CORR_PRIORS => call.result = CORR_PRIORS[key]
           /\ rev \in DOMAIN CORR_PRIORS => call.result = CORR_PRIORS[rev]
           /\ (key \notin DOMAIN CORR_PRIORS /\ rev \notin DOMAIN CORR_PRIORS)
                 => call.result = RInt(0)

\* the table holds only the other ordering of the pair asked for
C16_Witness ==
    /\ call.fn = "pair_corr"
    /\ <<call.a, call.b, call.script_name>> \notin DOMAIN CORR_PRIORS
    /\ <<call.b, call.a, call.script_name>> \in DOMAIN CORR_PRIORS
    /\ call.result # RInt(0)

\* row r1 ranks strictly better than row r2: by grade, then by overall score
RanksBetter(r1, r2) ==
    \/ ~NotWorse(r2.grade, r1.grade)
    \/ r1.grade = r2.grade /\ RLt(r2.overall_score, r1.overall_score)

\* C14: in the list suggest_slips returns every grade-A slip comes before
\* every grade-B slip and every grade-B slip before every grade-C slip, and
\* within one grade the overall scores do not increase.
C14_GradeThenScore ==
    (call.fn = "suggest_slips" /\ call.result.exc = "") =>
        LET out == call.result.out IN
        \A i, j \in 1..Len(out) : i < j => ~RanksBetter(out[j], out[i])

\* a list of two grades and of two scores within a grade, which is not in
\* the order the combinations were evaluated in
C14_Witness ==
    /\ call.fn = "suggest_slips" /\ call.result.exc = ""
    /\ LET out == call.result.out IN
       /\ Len(out) = 3
       /\ out[1].grade = out[2].grade
       /\ RLt(out[2].overall_score, out[1].overall_score)
       /\ out[2].grade # out[3].grade
       /\ out # SubSeq(call.result.evaluated, 1, 3)

\* the number of 3-element subsets of n elements
Choose3(n) == (n * (n - 1) * (n - 2)) \div 6

\* the ids of the rows of a table
TableIds(df) == {df[i].id : i \in 1..Len(df)}

\* C15: suggest_slips evaluates every 3-element subset of the N picks once
\* (none left out, none twice, no pick twice in a slip) and returns
\* min(top_k, C(N,3)) slips, none of the others ranking strictly better than
\* a returned one.
C15_AllCombinations ==
    call.fn = "suggest_slips" =>
        LET n == Len(call.df)
            rows == call.result.evaluated
            out == call.result.out
            left == {i \in 1..Len(rows) :
                        \A k \in 1..Len(out) : out[k].ids # rows[i].ids}
        IN /\ call.result.exc = ""
           /\ Len(rows) = Choose3(n)
           /\ \A i \in 1..Len(rows) :
                 LET ids == {rows[i].ids[k] : k \in 1..3} IN
                 /\ Cardinality(ids) = 3 /\ ids \subseteq TableIds(call.df)
                 /\ \A j \in 1..Len(rows) :
                       i # j => ids # {rows[j].ids[k] : k \in 1..3}
           /\ Len(out) = IF call.top_k < Choose3(n) THEN call.top_k ELSE Choose3(n)
           /\ \A k \in 1..Len(out) : \E i \in 1..Len(rows) : rows[i] = out[k]
           /\ \A i \in left, k \in 1..Len(out) : ~RanksBetter(rows[i], out[k])

\* the id list names three different ids, each the id of a row
ThreeKnownIds(df, ids) ==
    /\ Len(ids) = 3
    /\ Cardinality({ids[k] : k \in 1..Len(ids)}) = 3
    /\ {ids[k] : k \in 1..Len(ids)} \subseteq TableIds(df)

\* C17: the slip named by --slip is evaluated only when the list names
\* exactly three different ids that all exist in the table; any other list
\* is rejected.
C17_ExactlyThreeIds ==
    call.fn = "main_slip" =>
        (call.result.outcome = "evaluated" <=> ThreeKnownIds(call.df, call.ids))

------------------------------------------------------------------------------
(* optimize_parlay_size, src/src/gorillagenics/bankroll.py *)

\* picks handed to optimize_parlay_size, and the largest max_legs
MaxParlayPicks == 3

ParlayProbabilities == {Rat(1, 2), Rat(3, 5), Rat(7, 10)}

ParlayOdds == {Rat(3, 2), RInt(2)}

\* -float('inf'): below every number in RLt
NegInf == <<0 - 1, 0>>

RECURSIVE RProd(_)
\* np.prod of a list; 1.0 for the empty list
RProd(xs) == IF xs = <<>> THEN RInt(1) ELSE RMul(Head(xs), RProd(Tail(xs)))

\* key=lambda x: x[0] * x[1] - 1, reverse=True
EdgeKey(x) == <<RNeg(RSub(RMul(x[1], x[2]), RInt(1)))>>

\* parlay_prob * parlay_odds - 1 of the first size pairs of combined_data
ParlayEv(combined_data, size) ==
    RSub(RMul(RProd([i \in 1..size |-> combined_data[i][1]]),
              RProd([i \in 1..size |-> combined_data[i][2]])),
         RInt(1))

RECURSIVE TestSizes(_, _, _, _)
\* the loop over size, from size to stop - 1, carrying best_ev and best_size
TestSizes(combined_data, size, stop, best) ==
    IF size >= stop THEN best
    ELSE Eval(ParlayEv(combined_data, size), LAMBDA ev :
            TestSizes(combined_data, size + 1, stop,
                      IF RLt(best.best_ev, ev)
                      THEN [best_ev |-> ev, best_size |-> size]
                      ELSE best))

\* best_combination = list(range(size)): positions 0..size-1, read on
\* return as positions of the lists the caller passed
optimize_parlay_size(pick_probabilities, pick_odds, max_legs) ==
    IF Len(pick_probabilities) # Len(pick_odds)
    THEN [exc |-> "ValueError"]
    ELSE
    Eval(SortValues([i \in 1..Len(pick_odds) |->
                        <<pick_probabilities[i], pick_odds[i]>>], EdgeKey),
         LAMBDA combined_data :
    Eval(TestSizes(combined_data, 1,
                   IF max_legs + 1 < Len(pick_odds) + 1
                   THEN max_legs + 1 ELSE Len(pick_odds) + 1,
                   [best_ev |-> NegInf, best_size |-> 0]),
         LAMBDA best :
    Eval([k \in 1..best.best_size |-> k - 1], LAMBDA best_combination :
        [exc |-> "",
         optimal_size |-> best.best_size,
         optimal_ev |-> best.best_ev,
         recommended_picks |-> best_combination,
         parlay_probability |->
            RProd([k \in 1..Len(best_combination) |->
                      pick_probabilities[best_combination[k] + 1]]),
         parlay_odds |->
            RProd([k \in 1..Len(best_combination) |->
                      pick_odds[best_combination[k] + 1]])])))

ProbabilityLists ==
    UNION { [1..n -> ParlayProbabilities] : n \in 0..MaxParlayPicks }

OddsLists == UNION { [1..n -> ParlayOdds] : n \in 0..MaxParlayPicks }

OptimizeParlaySize ==
    /\ mgr = "live"
    /\ FirstCall
    /\ \E pick_probabilities \in ProbabilityLists, pick_odds \in OddsLists,
          max_legs \in 1..MaxParlayPicks :
        /\ call' = [fn |-> "optimize_parlay_size",
                    pick_probabilities |-> pick_probabilities,
                    pick_odds |-> pick_odds, max_legs |-> max_legs,
                    result |-> optimize_parlay_size(pick_probabilities,
                                                    pick_odds, max_legs)]
        /\ last' = Call("optimize_parlay_size",
                        IF Len(pick_probabilities) = Len(pick_odds)
                        THEN "ok" ELSE "ValueError", 0)
        /\ UNCHANGED <<file, mgr, ledger, current_balance, clock, kelly, peer>>

InitParlay == Init /\ file = AbsentFile

NextParlay == Construct \/ OptimizeParlaySize

SpecParlay == InitParlay /\ [][NextParlay]_vars

------------------------------------------------------------------------------
(* Properties of the parlay sizer *)

\* the call was made on lists of one length, with at least one pick
ParlayCall ==
    /\ call.fn = "optimize_parlay_size"
    /\ Len(call.pick_probabilities) = Len(call.pick_odds)
    /\ Len(call.pick_odds) >= 1

\* positions of the caller's lists, the highest edge first, equal edges in
\* the order given
ByEdge(probs, odds) ==
    LET Key(i) == <<RNeg(RSub(RMul(probs[i], odds[i]), RInt(1)))>>
    IN SortValues([i \in 1..Len(odds) |-> i], Key)

\* the parlay EV of the s picks of highest edge
TopEv(probs, odds, s) ==
    LET top == ByEdge(probs, odds) IN
    RSub(RMul(RProd([k \in 1..s |-> probs[top[k]]]),
              RProd([k \in 1..s |-> odds[top[k]]])), RInt(1))

\* C18: for lists of one length, not empty, and max_legs >= 1 the size
\* returned lies in 1..min(max_legs, N), no other size in that range has a
\* top-by-edge selection of greater parlay EV, and the returned probability
\* and odds are the products over that selection, so that
\* parlay_probability * parlay_odds - 1 = optimal_ev.
C18_ParlayOverSelection ==
    ParlayCall =>
        LET probs == call.pick_probabilities
            odds == call.pick_odds
            r == call.result
            m == IF call.max_legs < Len(odds) THEN call.max_legs ELSE Len(odds)
            top == ByEdge(probs, odds)
        IN /\ r.exc = ""
           /\ r.optimal_size \in 1..m
           /\ r.optimal_ev = TopEv(probs, odds, r.optimal_size)
           /\ \A s \in 1..m : RLe(TopEv(probs, odds, s), r.optimal_ev)
           /\ r.parlay_probability =
                 RProd([k \in 1..r.optimal_size |-> probs[top[k]]])
           /\ r.parlay_odds = RProd([k \in 1..r.optimal_size |-> odds[top[k]]])
           /\ RSub(RMul(r.parlay_probability, r.parlay_odds), RInt(1))
                 = r.optimal_ev

\* C19: optimal_size <= max_legs, recommended_picks holds optimal_size
\* different positions of the input lists, and the picks at those positions
\* are the picks of highest edge that were selected, in whatever order the
\* lists were given.
C19_IndicesNameSelection ==
    ParlayCall =>
        LET probs == call.pick_probabilities
            odds == call.pick_odds
            r == call.result
            rec == {r.recommended_picks[k] + 1 : k \in 1..Len(r.recommended_picks)}
            top == ByEdge(probs, odds)
            sel == {top[k] : k \in 1..r.optimal_size}
            Same(i, j) == probs[i] = probs[j] /\ odds[i] = odds[j]
        IN /\ r.optimal_size <= call.max_legs
           /\ Len(r.recommended_picks) = r.optimal_size
           /\ Cardinality(rec) = r.optimal_size
           /\ rec \subseteq 1..Len(odds)
           /\ \A i \in 1..Len(odds) :
                 Cardinality({j \in rec : Same(i, j)})
                    = Cardinality({j \in sel : Same(i, j)})

------------------------------------------------------------------------------
(* get_bankroll_summary, src/src/gorillagenics/bankroll.py *)

\* [entry for entry in self.ledger if entry.action == action]
WithAction(l, action) == SelectSeq(l, LAMBDA entry : entry.action = action)

RECURSIVE SumOf(_, _)
\* sum(abs(entry.amount) ...) when absolute, sum(entry.amount ...) otherwise
SumOf(entries, absolute) ==
    IF entries = <<>> THEN 0
    ELSE (IF absolute THEN Abs(Head(entries).amount) ELSE Head(entries).amount)
         + SumOf(Tail(entries), absolute)

\* the dict returned; win_rate and roi are quotients
get_bankroll_summary_of(l, bal) ==
    IF l = <<>>
    THEN [current_balance |-> 0, total_bets |-> 0, total_winnings |-> 0]
    ELSE
    LET bets == WithAction(l, "bet")
        wins == WithAction(l, "win")
        losses == WithAction(l, "loss")
        starting_balance ==
            IF l[1].action = "initialize" THEN l[1].balance_after ELSE 0
    IN [current_balance |-> bal,
        starting_balance |-> starting_balance,
        total_profit_loss |-> bal - starting_balance,
        total_bet |-> SumOf(bets, TRUE),
        total_winnings |-> SumOf(wins, FALSE),
        total_bets |-> Len(bets),
        winning_bets |-> Len(wins),
        losing_bets |-> Len(losses),
        win_rate |-> IF bets # <<>>
                     THEN RMul(Rat(Len(wins), Len(bets)), RInt(100))
                     ELSE RInt(0),
        roi |-> IF starting_balance > 0
                THEN RMul(Rat(bal - starting_balance, starting_balance), RInt(100))
                ELSE RInt(0)]

get_bankroll_summary ==
    /\ mgr = "live"
    /\ last.op # "get_bankroll_summary"
    /\ call' = [fn |-> "get_bankroll_summary",
                result |-> get_bankroll_summary_of(ledger, current_balance)]
    /\ last' = Call("get_bankroll_summary", "ok", 0)
    /\ UNCHANGED <<file, mgr, ledger, current_balance, clock, kelly, peer>>

\* a manager on a fresh path: ledger operations and summaries in any order
InitSummary == Init /\ file = AbsentFile

NextSummary ==
    Construct \/ InitializeBankroll \/ LogBet \/ LogResult \/ get_bankroll_summary

SpecSummary == InitSummary /\ [][NextSummary]_vars

------------------------------------------------------------------------------
(* Properties of the summary *)

\* the number of entries of one action
CountAction(l, action) == Cardinality({i \in 1..Len(l) : l[i].action = action})

\* the fields the summary is to report
SummaryFields ==
    {"total_bets", "winning_bets", "losing_bets", "win_rate",
     "total_profit_loss", "roi"}

\* C20: whatever ledger operations came before, get_bankroll_summary reports
\* total_bets, winning_bets and losing_bets as the numbers of 'bet', 'win'
\* and 'loss' entries, win_rate as 100 * wins / bets (0 without bets), and
\* total_profit_loss and roi against the balance_after of the initialize
\* entry.
C20_SummaryCounts ==
    last.op = "get_bankroll_summary" =>
        LET r == call.result
            bets == CountAction(ledger, "bet")
            wins == CountAction(ledger, "win")
            inits == {i \in 1..Len(ledger) : ledger[i].action = "initialize"}
        IN /\ SummaryFields \subseteq DOMAIN r
           /\ r.total_bets = bets
           /\ r.winning_bets = wins
           /\ r.losing_bets = CountAction(ledger, "loss")
           /\ r.win_rate = IF bets = 0 THEN RInt(0) ELSE Rat(100 * wins, bets)
           /\ \A i \in inits :
                 /\ r.total_profit_loss = current_balance - ledger[i].balance_after
                 /\ ledger[i].balance_after > 0 =>
                       r.roi = Rat(100 * (current_balance - ledger[i].balance_after),
                                   ledger[i].balance_after)

------------------------------------------------------------------------------
(* query_ledger, src/src/gorillagenics/bankroll.py *)

\* a date argument: None, or a datetime (which is always true in an if)
NoDate == [given |-> FALSE]

SomeDate(t) == [given |-> TRUE, t |-> t]

\* if game_script: / if stack_type: false for None and for the empty string
Truthy(text) == text # "None" /\ text # ""

query_ledger_of(l, game_script, stack_type, date_from, date_to) ==
    LET by_script == IF Truthy(game_script)
                     THEN SelectSeq(l, LAMBDA e : e.game_script = game_script)
                     ELSE l
        by_stack == IF Truthy(stack_type)
                    THEN SelectSeq(by_script, LAMBDA e : e.stack_type = stack_type)
                    ELSE by_script
        by_from == IF date_from.given
                   THEN SelectSeq(by_stack, LAMBDA e : e.timestamp >= date_from.t)
                   ELSE by_stack
    IN IF date_to.given
       THEN SelectSeq(by_from, LAMBDA e : e.timestamp <= date_to.t)
       ELSE by_from

\* game scripts and stack types given to log_bet and to query_ledger
QueryScripts == {"None", "", "shootout", "control"}

QueryStacks == {"None", "QB+WR"}

QueryDates == {NoDate, SomeDate(1)}

\* stakes of the bets queried
QueryStakes == {0, 1}

\* log_bet with tags of every kind, the write succeeding
LogTaggedBet ==
    \E stake \in QueryStakes, gs \in QueryScripts \ {"control"}, st \in QueryStacks :
        log_bet("s1", stake, <<gs, st>>, "ok")

query_ledger ==
    /\ mgr = "live"
    /\ FirstCall
    /\ \E game_script \in QueryScripts, stack_type \in QueryStacks,
          date_from \in QueryDates, date_to \in QueryDates :
        call' = [fn |-> "query_ledger", game_script |-> game_script,
                 stack_type |-> stack_type, date_from |-> date_from,
                 date_to |-> date_to,
                 result |-> query_ledger_of(ledger, game_script, stack_type,
                                            date_from, date_to)]
    /\ last' = Call("query_ledger", "ok", 0)
    /\ UNCHANGED <<file, mgr, ledger, current_balance, clock, kelly, peer>>

InitQuery == Init /\ file = AbsentFile

NextQuery == Construct \/ FundBankroll \/ LogTaggedBet \/ query_ledger

SpecQuery == InitQuery /\ [][NextQuery]_vars

------------------------------------------------------------------------------
(* Properties of the query *)

\* entry e matches every filter the call provided (a filter is provided
\* when it is not None)
MatchesFilters(e, c) ==
    /\ c.game_script # "None" => e.game_script = c.game_script
    /\ c.stack_type # "None" => e.stack_type = c.stack_type
    /\ c.date_from.given => e.timestamp >= c.date_from.t
    /\ c.date_to.given => e.timestamp <= c.date_to.t

\* C21: query_ledger returns, in ledger order, exactly the entries matching
\* every filter provided (game script, stack type, date_from, date_to), and
\* the whole ledger when none is provided.
C21_QueryMatchesAll ==
    last.op = "query_ledger" =>
        call.result = SelectSeq(ledger, LAMBDA e : MatchesFilters(e, call))

------------------------------------------------------------------------------
(* Properties of score_pick *)

\* 100 * (projection - line) / max(|line|, 1e-6)
RelativeGap(p) ==
    LET size == IF RLt(RAbs(p.line), Rat(1, 1000000))
                THEN Rat(1, 1000000) ELSE RAbs(p.line)
    IN RDiv(RMul(RInt(100), RSub(p.projection, p.line)), size)

\* C22: score_pick sets the direction to Over exactly when
\* projection >= line, Under otherwise, and ev_pct to
\* 100 * (projection - line) / max(|line|, 1e-6) brought into [-60, 60]:
\* ev_pct never leaves [-60, 60].
C22_EvClamped ==
    call.fn = "score_pick" =>
        LET p == call.p
            r == call.result
            raw == RelativeGap(p)
        IN /\ r.rec = "Over" <=> RLe(p.line, p.projection)
           /\ r.rec = "Under" <=> RLt(p.projection, p.line)
           /\ RLe(RInt(0 - 60), r.ev_pct) /\ RLe(r.ev_pct, RInt(60))
           /\ r.ev_pct = IF RLt(RInt(60), raw) THEN RInt(60)
                         ELSE IF RLt(raw, RInt(0 - 60)) THEN RInt(0 - 60)
                         ELSE raw

\* line 100, projection 1000: a gap of 900 per cent held at 60
C22_Witness ==
    /\ call.fn = "score_pick"
    /\ RelativeGap(call.p) = RInt(900)
    /\ call.result.ev_pct = RInt(60)
    /\ call.result.rec = "Over"

------------------------------------------------------------------------------
(* corr.py: CorrelationEngine *)

\* _initialize_position_correlations
position_correlations ==
    ("QB" :> ("WR" :> Rat(65, 100) @@ "TE" :> Rat(45, 100) @@ "RB" :> Rat(15, 100)
              @@ "K" :> Rat(25, 100) @@ "DST" :> Rat(0 - 10, 100)))
    @@ ("RB" :> ("QB" :> Rat(15, 100) @@ "WR" :> Rat(0 - 5, 100) @@ "TE" :> Rat(5, 100)
                 @@ "RB" :> Rat(0 - 15, 100) @@ "K" :> Rat(10, 100)
                 @@ "DST" :> Rat(0 - 5, 100)))
    @@ ("WR" :> ("QB" :> Rat(65, 100) @@ "WR" :> Rat(0 - 10, 100)
                 @@ "TE" :> Rat(0 - 5, 100) @@ "RB" :> Rat(0 - 5, 100)
                 @@ "K" :> Rat(15, 100) @@ "DST" :> Rat(0 - 10, 100)))
    @@ ("TE" :> ("QB" :> Rat(45, 100) @@ "WR" :> Rat(0 - 5, 100)
                 @@ "TE" :> Rat(0 - 10, 100) @@ "RB" :> Rat(5, 100)
                 @@ "K" :> Rat(10, 100) @@ "DST" :> Rat(0 - 5, 100)))
    @@ ("K" :> ("QB" :> Rat(25, 100) @@ "WR" :> Rat(15, 100) @@ "TE" :> Rat(10, 100)
                @@ "RB" :> Rat(10, 100) @@ "K" :> Rat(0, 100) @@ "DST" :> Rat(5, 100)))
    @@ ("DST" :> ("QB" :> Rat(0 - 10, 100) @@ "WR" :> Rat(0 - 10, 100)
                  @@ "TE" :> Rat(0 - 5, 100) @@ "RB" :> Rat(0 - 5, 100)
                  @@ "K" :> Rat(5, 100) @@ "DST" :> Rat(0, 100)))

\* _initialize_script_multipliers
game_script_multipliers ==
    ("shootout" :> ("QB" :> Rat(120, 100) @@ "WR" :> Rat(115, 100)
                    @@ "TE" :> Rat(110, 100) @@ "RB" :> Rat(90, 100)
                    @@ "K" :> Rat(105, 100) @@ "DST" :> Rat(85, 100)))
    @@ ("control" :> ("QB" :> Rat(95, 100) @@ "WR" :> Rat(90, 100)
                      @@ "TE" :> Rat(95, 100) @@ "RB" :> Rat(115, 100)
                      @@ "K" :> Rat(95, 100) @@ "DST" :> Rat(110, 100)))
    @@ ("neutral" :> ("QB" :> RInt(1) @@ "WR" :> RInt(1) @@ "TE" :> RInt(1)
                      @@ "RB" :> RInt(1) @@ "K" :> RInt(1) @@ "DST" :> RInt(1)))
    @@ ("blowout" :> ("QB" :> Rat(80, 100) @@ "WR" :> Rat(85, 100)
                      @@ "TE" :> Rat(90, 100) @@ "RB" :> Rat(125, 100)
                      @@ "K" :> Rat(90, 100) @@ "DST" :> Rat(115, 100)))
    @@ ("defensive" :> ("QB" :> Rat(85, 100) @@ "WR" :> Rat(80, 100)
                        @@ "TE" :> Rat(85, 100) @@ "RB" :> Rat(95, 100)
                        @@ "K" :> Rat(80, 100) @@ "DST" :> Rat(130, 100)))

\* the empty dict
EmptyDict == [k \in {} |-> RInt(0)]

_get_script_correlation_factor(pos1, pos2, script) ==
    LET multipliers == DictGet(game_script_multipliers, script, EmptyDict)
        mult1 == DictGet(multipliers, pos1, RInt(1))
        mult2 == DictGet(multipliers, pos2, RInt(1))
    IN IF RLt(RInt(1), mult1) /\ RLt(RInt(1), mult2) THEN Rat(12, 10)
       ELSE IF RLt(mult1, RInt(1)) /\ RLt(mult2, RInt(1)) THEN Rat(11, 10)
       ELSE Rat(9, 10)

\* np.clip(x, -1.0, 1.0)
Clip1(x) == RMax(RMin(x, RInt(1)), RInt(0 - 1))

\* A game context is a dict; a key it lacks takes the default of .get
calculate_correlation(player1, player2, game_context) ==
    LET pos1 == DictGet(player1, "position", "")
        pos2 == DictGet(player2, "position", "")
        team1 == DictGet(player1, "team", "")
        team2 == DictGet(player2, "team", "")
        base == DictGet(DictGet(position_correlations, pos1, EmptyDict), pos2,
                        RInt(0))
        base_correlation == IF team1 = team2 THEN RMul(base, Rat(15, 10))
                            ELSE RMul(base, Rat(3, 10))
        script == DictGet(game_context, "game_script", "neutral")
        script_factor == _get_script_correlation_factor(pos1, pos2, script)
        total_line == DictGet(game_context, "total_line", RInt(45))
        total_factor == RAdd(RInt(1), RMul(RSub(total_line, RInt(45)), Rat(1, 100)))
    IN Clip1(RMul(RMul(base_correlation, script_factor), total_factor))

\* np.eye(n)
Eye(n) == [ij \in (1..n) \X (1..n) |-> IF ij[1] = ij[2] THEN RInt(1) ELSE RInt(0)]

\* Faulty variant: only the upper triangle is filled
upper_triangle_matrix(lineup_players, game_context) ==
    LET n_players == Len(lineup_players)
    IN [ij \in (1..n_players) \X (1..n_players) |->
          IF ij[1] < ij[2]
          THEN calculate_correlation(lineup_players[ij[1]], lineup_players[ij[2]],
                                     game_context)
          ELSE Eye(n_players)[ij]]

\* The loops visit every i < j once and write cells [i, j] and [j, i]
calculate_lineup_correlation_matrix(lineup_players, game_context) ==
    LET n_players == Len(lineup_players)
    IN [ij \in (1..n_players) \X (1..n_players) |->
          IF ij[1] < ij[2]
          THEN calculate_correlation(lineup_players[ij[1]], lineup_players[ij[2]],
                                     game_context)
          ELSE IF ij[2] < ij[1]
          THEN calculate_correlation(lineup_players[ij[2]], lineup_players[ij[1]],
                                     game_context)
          ELSE Eye(n_players)[ij]]

\* GameScriptPriors()
DefaultPriors ==
    [shootout |-> Rat(25, 100), control |-> Rat(35, 100), neutral |-> Rat(30, 100),
     blowout |-> Rat(7, 100), defensive |-> Rat(3, 100)]

GameScripts == {"shootout", "control", "neutral", "blowout", "defensive"}

get_game_script_priors(team_stats, opponent_stats, vegas_line, total_line) ==
    LET p0 == DefaultPriors
        p1 == IF RLt(RInt(50), total_line)
              THEN [p0 EXCEPT !.shootout = RAdd(@, Rat(15, 100)),
                              !.defensive = RSub(@, Rat(5, 100)),
                              !.control = RSub(@, Rat(10, 100))]
              ELSE IF RLt(total_line, RInt(42))
              THEN [p0 EXCEPT !.defensive = RAdd(@, Rat(10, 100)),
                              !.control = RAdd(@, Rat(10, 100)),
                              !.shootout = RSub(@, Rat(15, 100)),
                              !.neutral = RSub(@, Rat(5, 100))]
              ELSE p0
        spread_magnitude == RAbs(vegas_line)
        p2 == IF RLt(RInt(7), spread_magnitude)
              THEN [p1 EXCEPT !.blowout = RAdd(@, Rat(10, 100)),
                              !.neutral = RSub(@, Rat(5, 100)),
                              !.control = RSub(@, Rat(5, 100))]
              ELSE p1
        team_pace == DictGet(team_stats, "pace", RInt(65))
        opp_pace == DictGet(opponent_stats, "pace", RInt(65))
        avg_pace == RDiv(RAdd(team_pace, opp_pace), RInt(2))
        priors == IF RLt(RInt(68), avg_pace)
                  THEN [p2 EXCEPT !.shootout = RAdd(@, Rat(5, 100)),
                                  !.control = RSub(@, Rat(5, 100))]
                  ELSE IF RLt(avg_pace, RInt(62))
                  THEN [p2 EXCEPT !.control = RAdd(@, Rat(5, 100)),
                                  !.shootout = RSub(@, Rat(5, 100))]
                  ELSE p2
        total_prob == RAdd(RAdd(RAdd(RAdd(priors.shootout, priors.control),
                                     priors.neutral), priors.blowout),
                           priors.defensive)
    IN [s \in GameScripts |-> RDiv(priors[s], total_prob)]

\* Inputs
MaxLineup == 3

CorrPositions == {"QB", "WR", "RB", "DST"}

CorrTeams == {"BUF", "MIA"}

LineupPlayers ==
    { ("position" :> pos @@ "team" :> team) : pos \in CorrPositions, team \in CorrTeams }

Lineups == UNION { [1..n -> LineupPlayers] : n \in 0..MaxLineup }

\* game contexts: no key, a script, a total line, or both
GameContexts ==
    {<< >>}
    \cup { ("game_script" :> s) : s \in {"shootout", "control"} }
    \cup { ("total_line" :> RInt(55)) }
    \cup { ("game_script" :> s @@ "total_line" :> RInt(55)) : s \in {"shootout", "control"} }

TotalLines == {40, 42, 45, 50, 51}

VegasLines == {0 - 8, 0, 7, 10}

\* team statistics: no pace, a slow one, a fast one
PaceStats == {<< >>, "pace" :> RInt(60), "pace" :> RInt(72)}

CalculateLineupCorrelationMatrix ==
    /\ FirstCall
    /\ \E lineup_players \in Lineups, game_context \in GameContexts :
         /\ call' = [fn |-> "calculate_lineup_correlation_matrix",
                     lineup_players |-> lineup_players,
                     game_context |-> game_context,
                     result |-> calculate_lineup_correlation_matrix(
                                    lineup_players, game_context)]
         /\ UNCHANGED ObjectState

GetGameScriptPriors ==
    /\ FirstCall
    /\ \E team_stats \in PaceStats, opponent_stats \in PaceStats,
          vegas_line \in VegasLines, total_line \in TotalLines :
         /\ call' = [fn |-> "get_game_script_priors",
                     team_stats |-> team_stats, opponent_stats |-> opponent_stats,
                     vegas_line |-> vegas_line, total_line |-> total_line,
                     result |-> get_game_script_priors(
                                    team_stats, opponent_stats, RInt(vegas_line),
                                    RInt(total_line))]
         /\ UNCHANGED ObjectState

InitCorr == Init /\ file = AbsentFile

NextCorr == CalculateLineupCorrelationMatrix \/ GetGameScriptPriors

SpecCorr == InitCorr /\ [][NextCorr]_vars

\* C23: calculate_lineup_correlation_matrix returns an n-by-n matrix for a
\* lineup of n players, symmetric and with 1 on the diagonal, whatever the
\* players and the game context.
C23_MatrixSymmetric ==
    call.fn = "calculate_lineup_correlation_matrix" =>
        LET n == Len(call.lineup_players)
            m == call.result
        IN /\ DOMAIN m = (1..n) \X (1..n)
           /\ \A i \in 1..n : m[<<i, i>>] = RInt(1)
           /\ \A i \in 1..n : \A j \in 1..n : m[<<i, j>>] = m[<<j, i>>]

\* three players whose correlations are not all zero
C23_Witness ==
    /\ call.fn = "calculate_lineup_correlation_matrix"
    /\ Len(call.lineup_players) = 3
    /\ call.result[<<1, 2>>] # RInt(0)
    /\ call.result[<<3, 1>>] # RInt(0)
    /\ call.result[<<2, 3>>] = RInt(1)

\* C24: get_game_script_priors returns a probability distribution over the
\* five game scripts: every value in [0, 1] and the values sum to 1, for
\* every total line, spread and pair of paces.
C24_PriorsDistribution ==
    call.fn = "get_game_script_priors" =>
        LET r == call.result
        IN /\ DOMAIN r = GameScripts
           /\ \A s \in GameScripts : RLe(RInt(0), r[s]) /\ RLe(r[s], RInt(1))
           /\ RAdd(RAdd(RAdd(RAdd(r["shootout"], r["control"]), r["neutral"]),
                        r["blowout"]), r["defensive"]) = RInt(1)

------------------------------------------------------------------------------
(* roles.py: RoleTagger.optimize_role_distribution *)

\* the roles in the order of the weight dicts
RoleOrder == <<"Anchor", "Correlation", "Low-Variance", "High-Upside", "Value">>

RoleWeights(a, c, l, h, v) ==
    ("Anchor" :> Rat(a, 100)) @@ ("Correlation" :> Rat(c, 100))
    @@ ("Low-Variance" :> Rat(l, 100)) @@ ("High-Upside" :> Rat(h, 100))
    @@ ("Value" :> Rat(v, 100))

base_weights ==
    ("gpp" :> RoleWeights(25, 30, 15, 25, 5))
    @@ ("cash" :> RoleWeights(35, 20, 35, 5, 5))
    @@ ("large_field" :> RoleWeights(20, 35, 10, 30, 5))

get_role_weights(lineup_roles, tournament_type) ==
    DictGet(base_weights, tournament_type, base_weights["gpp"])

\* int(x), for x >= 0 and x < 0 alike: truncation toward zero
IntOf(x) == IF x[1] >= 0 THEN x[1] \div x[2] ELSE 0 - ((0 - x[1]) \div x[2])

\* max(d, key=d.get): the first key, in dict order, holding the largest value
MaxKey(d) ==
    LET best == CHOOSE i \in 1..Len(RoleOrder) :
                    /\ \A j \in 1..Len(RoleOrder) : d[RoleOrder[j]] <= d[RoleOrder[i]]
                    /\ \A j \in 1..(i - 1) : d[RoleOrder[j]] < d[RoleOrder[i]]
    IN RoleOrder[best]

SumCounts(d) ==
    d["Anchor"] + d["Correlation"] + d["Low-Variance"] + d["High-Upside"] + d["Value"]

optimize_role_distribution(lineup_size, tournament_type) ==
    LET target_weights == get_role_weights(<<>>, tournament_type)
        role_counts == [role \in DOMAIN target_weights |->
                          LET n == IntOf(RMul(RInt(lineup_size), target_weights[role]))
                          IN IF n < 1 THEN 1 ELSE n]
        total_assigned == SumCounts(role_counts)
        largest_role == MaxKey(role_counts)
    IN IF total_assigned # lineup_size
       THEN [role_counts EXCEPT ![largest_role] = @ + (lineup_size - total_assigned)]
       ELSE role_counts

\* Inputs
MaxLineupSize == 30

TournamentTypes == {"gpp", "cash", "large_field", "showdown"}

OptimizeRoleDistribution ==
    /\ FirstCall
    /\ \E lineup_size \in 1..MaxLineupSize, tournament_type \in TournamentTypes :
         /\ call' = [fn |-> "optimize_role_distribution",
                     lineup_size |-> lineup_size,
                     tournament_type |-> tournament_type,
                     result |-> optimize_role_distribution(lineup_size,
                                                           tournament_type)]
         /\ UNCHANGED ObjectState

InitRoles == Init /\ file = AbsentFile

NextRoles == OptimizeRoleDistribution

SpecRoles == InitRoles /\ [][NextRoles]_vars

\* C25: for every lineup_size >= 1 and tournament type the role counts of
\* optimize_role_distribution sum to exactly lineup_size and none is negative.
C25_RoleCounts ==
    call.fn = "optimize_role_distribution" =>
        /\ SumCounts(call.result) = call.lineup_size
        /\ \A role \in DOMAIN call.result : call.result[role] >= 0

------------------------------------------------------------------------------
(* slip.py: SlipEvaluator.grade_slip *)

\* Optional[float]: None is the empty tuple, a number v is <<v>>
None == << >>

Some(v) == <<v>>

\* the branch of lines 156-164 for one pick with its result data
pick_result(line, actual_result) ==
    IF actual_result = None THEN "pending"
    ELSE IF actual_result[1] = line THEN "push"
    ELSE IF actual_result[1] > line THEN "win"
    ELSE "loss"

\* the picks after the loop of lines 149-172
GradedPicks(slip, results) ==
    [i \in 1..Len(slip.picks) |->
        IF i <= Len(results)
        THEN [slip.picks[i] EXCEPT !.actual_result = results[i].actual_result,
                                   !.result = pick_result(slip.picks[i].line,
                                                          results[i].actual_result)]
        ELSE [slip.picks[i] EXCEPT !.result = "pending"]]

\* all_win after the loop: cleared by a lost pick and by a pick without result data
AllWin(slip, results) ==
    \A i \in 1..Len(slip.picks) :
        /\ i <= Len(results)
        /\ pick_result(slip.picks[i].line, results[i].actual_result) # "loss"

\* any_push after the loop
AnyPush(slip, results) ==
    \E i \in 1..Len(slip.picks) :
        /\ i <= Len(results)
        /\ pick_result(slip.picks[i].line, results[i].actual_result) = "push"

Payout(slip, overall_result) ==
    IF overall_result = "win" THEN RMul(slip.stake, slip.total_odds)
    ELSE IF overall_result = "push" THEN slip.stake
    ELSE RInt(0)

\* Faulty variant: the push rule applied to every slip type
grade_slip_push_any_type(slip, results) ==
    LET graded_picks == GradedPicks(slip, results)
        all_win == AllWin(slip, results)
        any_push == AnyPush(slip, results)
        win_or_push == \A i \in 1..Len(graded_picks) :
                          graded_picks[i].result \in {"win", "push"}
        overall_result ==
            IF \E i \in 1..Len(graded_picks) : graded_picks[i].result = "pending"
            THEN "pending"
            ELSE IF any_push
            THEN (IF all_win \/ win_or_push THEN "push" ELSE "loss")
            ELSE IF all_win \/ win_or_push THEN "win"
            ELSE "loss"
    IN [slip EXCEPT !.picks = graded_picks, !.overall_result = overall_result,
                    !.payout = Payout(slip, overall_result)]

grade_slip(slip, results) ==
    LET graded_picks == GradedPicks(slip, results)
        all_win == AllWin(slip, results)
        any_push == AnyPush(slip, results)
        win_or_push == \A i \in 1..Len(graded_picks) :
                          graded_picks[i].result \in {"win", "push"}
        overall_result ==
            IF \E i \in 1..Len(graded_picks) : graded_picks[i].result = "pending"
            THEN "pending"
            ELSE IF any_push /\ slip.slip_type = "parlay"
            THEN (IF all_win \/ win_or_push THEN "push" ELSE "loss")
            ELSE IF all_win \/ win_or_push THEN "win"
            ELSE "loss"
    IN [slip EXCEPT !.picks = graded_picks, !.overall_result = overall_result,
                    !.payout = Payout(slip, overall_result)]

\* Inputs
MaxSlipPicks == 3

PickLines == {5, 6}

\* a pick not graded yet, and a pick kept from an earlier grading
UngradedPicks ==
    { [line |-> l, actual_result |-> None, result |-> "None"] : l \in PickLines }
    \cup { [line |-> 6, actual_result |-> Some(7), result |-> "win"] }

ResultData == { [actual_result |-> a] : a \in {None, Some(4), Some(5), Some(6)} }

SlipTypes == {"single", "parlay", "teaser"}

UngradedSlips ==
    { [picks |-> ps, slip_type |-> t, total_odds |-> Rat(5, 2), stake |-> RInt(10),
       overall_result |-> "None", payout |-> None] :
        ps \in UNION { [1..n -> UngradedPicks] : n \in 0..MaxSlipPicks },
        t \in SlipTypes }

ResultLists == UNION { [1..n -> ResultData] : n \in 0..MaxSlipPicks }

GradeSlip ==
    /\ FirstCall
    /\ \E slip \in UngradedSlips, results \in ResultLists :
         /\ call' = [fn |-> "grade_slip", slip |-> slip, results |-> results,
                     result |-> grade_slip(slip, results)]
         /\ UNCHANGED ObjectState

InitSlip == Init /\ file = AbsentFile

NextSlip == GradeSlip

SpecSlip == InitSlip /\ [][NextSlip]_vars

\* pick i of the call has no result: no result data, or an actual_result of None
NoResultFor(i) ==
    i > Len(call.results) \/ call.results[i].actual_result = None

Lost(i) == call.results[i].actual_result[1] < call.slip.picks[i].line

Pushed(i) == call.results[i].actual_result[1] = call.slip.picks[i].line

\* C26: grade_slip gives 'pending' exactly when some pick has no result
\* (fewer results than picks, or an actual_result of None); otherwise 'loss'
\* when a pick lost; otherwise 'push' for a parlay with a pushed pick;
\* otherwise 'win'.  The payout is stake * total_odds for a win, the stake
\* for a push and 0 for a loss or a pending slip.
C26_GradeSlip ==
    call.fn = "grade_slip" =>
        LET picks == 1..Len(call.slip.picks)
            r == call.result
            expected ==
                IF \E i \in picks : NoResultFor(i) THEN "pending"
                ELSE IF \E i \in picks : Lost(i) THEN "loss"
                ELSE IF call.slip.slip_type = "parlay" /\ \E i \in picks : Pushed(i)
                THEN "push"
                ELSE "win"
        IN /\ r.overall_result = expected
           /\ r.payout = CASE expected = "win" ->
                                RMul(call.slip.stake, call.slip.total_odds)
                           [] expected = "push" -> call.slip.stake
                           [] OTHER -> RInt(0)

\* a single in which a pick pushed and none lost: a win paid at the odds
C26_Witness ==
    /\ call.fn = "grade_slip"
    /\ call.slip.slip_type = "single"
    /\ Len(call.slip.picks) = 2
    /\ \A i \in 1..2 : ~NoResultFor(i) /\ ~Lost(i)
    /\ Pushed(1)
    /\ call.result.overall_result = "win"
    /\ call.result.payout = RInt(25)

------------------------------------------------------------------------------
(* One manager whose writes succeed, reopened at any moment *)

PlaceBet == \E stake \in Amounts, t \in Tags : log_bet("s1", stake, t, "ok")

SettleBet == \E r \in Results, payout \in Amounts : log_result("s1", r, payout, "ok")

InitReopen == Init /\ file = AbsentFile

NextReopen == Construct \/ FundBankroll \/ PlaceBet \/ SettleBet

SpecReopen == InitReopen /\ [][NextReopen]_vars

(* Two managers on one path.  The processes run one call at a time; the
   fields mgr, ledger and current_balance are those of the manager making
   the next call, peer holds the other one's. *)
OtherManager ==
    /\ mgr' = peer.mgr
    /\ ledger' = peer.ledger
    /\ current_balance' = peer.current_balance
    /\ peer' = [mgr |-> mgr, ledger |-> ledger, current_balance |-> current_balance]
    /\ UNCHANGED <<file, clock, last, kelly, call>>

InitTwo == Init /\ file = AbsentFile

NextTwo == Construct \/ FundBankroll \/ PlaceBet \/ SettleBet \/ OtherManager

SpecTwo == InitTwo /\ [][NextTwo]_vars

\* the step saved the ledger
Saved == clock' = clock + 1

\* s is a prefix of t
IsPrefix(s, t) == Len(s) <= Len(t) /\ SubSeq(t, 1, Len(s)) = s

\* the balance of a manager against the persisted ledger
AgreesWithFile(m, f) ==
    (m.mgr = "live" /\ f.ledger # <<>>) =>
        m.current_balance = f.ledger[Len(f.ledger)].balance_after

\* C27: two managers on one ledger file, their initialize / log_bet /
\* log_result calls interleaved without a lock: the ledger persisted by a
\* save extends the ledger persisted before it as a prefix, and after the
\* save the current balance of each manager is the balance_after of the last
\* persisted entry.
C27_TwoManagers ==
    [][ Saved =>
          /\ IsPrefix(file.ledger, file'.ledger)
          /\ AgreesWithFile([mgr |-> mgr', current_balance |-> current_balance'],
                            file')
          /\ AgreesWithFile(peer', file') ]_vars

\* C28: save and load round trip: after successful ledger operations on a
\* manager, a new BankrollManager on the same file has the same ledger,
\* entry by entry with every field, the timestamp included, and the same
\* current balance.
C28_RoundTrip ==
    [][ /\ mgr = "live"
        /\ last.op \in AppendOps /\ last.outcome = "ok"
        /\ last'.op = "construct"
        => /\ last'.outcome = "ok"
           /\ mgr' = "live"
           /\ ledger' = ledger
           /\ current_balance' = current_balance ]_vars

\* a bet placed and settled, the manager reopened on three entries
C28_Witness ==
    /\ last.op = "construct"
    /\ Len(ledger) = 3
    /\ ledger[1].notes = "Initial bankroll setup"
    /\ ledger[2].action = "bet" /\ ledger[2].game_script = "shootout"
    /\ ledger[3].timestamp = 2
    /\ current_balance = 1

\* starting amount and payouts >= 0, stakes >= 0 (a bet's amount is -stake)
NonNegativeInputs(l) ==
    \A i \in 1..Len(l) :
        IF l[i].action = "bet" THEN l[i].amount <= 0 ELSE l[i].amount >= 0

\* C29: when the starting amount, every stake and every payout is
\* non-negative, the current balance and the balance_after of every entry
\* are non-negative.
C29_NeverOverdrawn ==
    (Live /\ NonNegativeInputs(ledger)) =>
        /\ current_balance >= 0
        /\ \A i \in 1..Len(ledger) : ledger[i].balance_after >= 0

\* a stake equal to the whole balance was accepted: the balance is 0, and a
\* larger stake was then refused
C29_Witness ==
    /\ Live /\ NonNegativeInputs(ledger)
    /\ Len(ledger) = 2
    /\ ledger[2].action = "bet" /\ ledger[2].amount = 0 - 1
    /\ current_balance = 0
    /\ last = Call("log_bet", "ValueError", 1)

------------------------------------------------------------------------------
(* The sign of the Kelly stake *)

\* bankroll, kelly_fraction and max_stake_percentage > 0, 0 < p <= 1
KellyDomain ==
    /\ kelly.called
    /\ RLt(RInt(0), kelly.bankroll)
    /\ RLt(RInt(0), kelly.kelly_fraction)
    /\ RLt(RInt(0), kelly.max_stake_percentage)
    /\ RLt(RInt(0), kelly.win_probability)
    /\ RLe(kelly.win_probability, RInt(1))

\* C30: for a positive bankroll, kelly_fraction and max_stake_percentage and
\* a win probability in (0, 1]: at decimal odds > 1 the recommended stake
\* is strictly positive exactly when the edge p * odds - 1 is strictly
\* positive, and it is 0 when the edge is zero or negative or the odds are
\* <= 1.
C30_StakeSignIsEdgeSign ==
    KellyDomain =>
        LET stake == kelly.result.recommended_stake
            edge == kelly.result.edge
        IN /\ RLt(RInt(1), kelly.decimal_odds) =>
                (RLt(RInt(0), stake) <=> RLt(RInt(0), edge))
           /\ (RLe(edge, RInt(0)) \/ RLe(kelly.decimal_odds, RInt(1))) =>
                stake = RInt(0)

====
